---- MODULE Spec2Model ----
(***************************************************************************)
(* A model of the LLM Code Copier extension (src/src/extension.ts): root   *)
(* resolution, display paths, the binary-content heuristic, the recursive  *)
(* folder walk, the preamble lookup and the copy commands.                 *)
(*                                                                         *)
(* Text is modelled as a sequence of tokens.  A path is a sequence of      *)
(* one-character strings, so that String.startsWith and String.length are  *)
(* the sequence prefix test and Len.  File content is a sequence of byte   *)
(* values; decoding it as UTF-8 gives a sequence of character tokens.      *)
(***************************************************************************)
EXTENDS Integers, Sequences, FiniteSets, TLC

VARIABLES
    workspaceFolders,   \* vscode.workspace.workspaceFolders: the fsPath of each root, in order
    fs,                 \* the filesystem: path -> node
    config,             \* the llmCopier settings
    pc,                 \* the position of the running operation
    call,               \* the arguments and locals of the running operation
    ret,                \* what the operation returned
    messages,           \* window messages shown so far: <<kind, text>> in order
    clipboard           \* the writes made to vscode.env.clipboard, in order

vars == <<workspaceFolders, fs, config, pc, call, ret, messages, clipboard>>

----------------------------------------------------------------------------
(* Strings *)

Sep == "/"

\* String.prototype.startsWith
startsWith(s, p) == Len(p) <= Len(s) /\ SubSeq(s, 1, Len(p)) = p

Min(a, b) == IF a <= b THEN a ELSE b

\* The concatenation of a sequence of strings (Array.prototype.join('')).
RECURSIVE joinStrings(_)
joinStrings(parts) ==
    IF parts = <<>> THEN <<>> ELSE Head(parts) \o joinStrings(Tail(parts))

\* s.split('/') without its empty pieces: the segments of a path.
RECURSIVE splitSegments(_, _)
splitSegments(s, cur) ==
    IF s = <<>> THEN (IF cur = <<>> THEN <<>> ELSE <<cur>>)
    ELSE IF Head(s) = Sep
         THEN (IF cur = <<>> THEN <<>> ELSE <<cur>>) \o splitSegments(Tail(s), <<>>)
         ELSE splitSegments(Tail(s), Append(cur, Head(s)))

Segments(p) == splitSegments(p, <<>>)

\* segs.join('/')
RECURSIVE joinSegments(_)
joinSegments(segs) ==
    IF segs = <<>> THEN <<>>
    ELSE IF Len(segs) = 1 THEN Head(segs)
    ELSE Head(segs) \o <<Sep>> \o joinSegments(Tail(segs))

DotDot == <<".", ".">>
Dot == <<".">>

\* path.normalize of an absolute POSIX path, segment by segment: '.' is dropped,
\* '..' removes the segment before it (and is dropped at the root).
RECURSIVE normalizeSegments(_, _)
normalizeSegments(segs, acc) ==
    IF segs = <<>> THEN acc
    ELSE IF Head(segs) = Dot THEN normalizeSegments(Tail(segs), acc)
    ELSE IF Head(segs) = DotDot
         THEN normalizeSegments(Tail(segs),
                                IF acc = <<>> THEN acc ELSE SubSeq(acc, 1, Len(acc) - 1))
         ELSE normalizeSegments(Tail(segs), Append(acc, Head(segs)))

\* path.join(a, b) for an absolute a: the non-empty arguments joined by '/', normalized.
pathJoin(a, b) ==
    LET joined == IF b = <<>> THEN a ELSE a \o <<Sep>> \o b
    IN  <<Sep>> \o joinSegments(normalizeSegments(Segments(joined), <<>>))

\* The length of the longest common prefix of two segment lists.
RECURSIVE commonPrefixLen(_, _)
commonPrefixLen(x, y) ==
    IF x = <<>> \/ y = <<>> \/ Head(x) # Head(y) THEN 0
    ELSE 1 + commonPrefixLen(Tail(x), Tail(y))

\* path.relative(from, to) for absolute POSIX paths: one '..' for every segment of
\* `from` past the common directory, then the segments of `to` past it.
pathRelative(from, to) ==
    LET f == normalizeSegments(Segments(from), <<>>)
        t == normalizeSegments(Segments(to), <<>>)
        c == commonPrefixLen(f, t)
        ups == [i \in 1..(Len(f) - c) |-> DotDot]
    IN  joinSegments(ups \o SubSeq(t, c + 1, Len(t)))

\* path.basename
pathBasename(p) ==
    LET s == Segments(p) IN IF s = <<>> THEN <<>> ELSE s[Len(s)]

\* vscode.Uri.joinPath(folderUri, name).fsPath
joinPath(folder, name) ==
    IF folder # <<>> /\ folder[Len(folder)] = Sep THEN folder \o name
    ELSE folder \o <<Sep>> \o name

----------------------------------------------------------------------------
(* Root resolution and display paths *)

\* An optional value: <<>> is undefined, <<v>> is v.
Undefined == <<>>
Some(v) == <<v>>

\* The loop of getWorkspaceRootForUri over workspaceFolders[i..], carrying
\* bestMatch and longestPath.
RECURSIVE rootLoop(_, _, _, _, _)
rootLoop(filePath, folders, i, bestMatch, longestPath) ==
    IF i > Len(folders) THEN bestMatch
    ELSE LET workspacePath == folders[i]
         IN  IF startsWith(filePath, workspacePath) /\ Len(workspacePath) > longestPath
             THEN rootLoop(filePath, folders, i + 1, Some(workspacePath), Len(workspacePath))
             ELSE rootLoop(filePath, folders, i + 1, bestMatch, longestPath)

\* A resolution that keeps the first matching root instead of the longest.
getWorkspaceRootFirstMatch(filePath, folders) ==
    LET hits == {i \in 1..Len(folders) : startsWith(filePath, folders[i])}
    IN  IF hits = {} THEN Undefined
        ELSE Some(folders[CHOOSE i \in hits : \A j \in hits : i <= j])

getWorkspaceRootForUri(filePath, folders) ==
    IF Len(folders) = 0 THEN Undefined
    ELSE rootLoop(filePath, folders, 1, Undefined, -1)

\* A display path that cuts the root's characters off the front of the file path.
getRelativePathBySlice(filePath, workspaceRoot) ==
    IF workspaceRoot # Undefined
    THEN SubSeq(filePath, Len(workspaceRoot[1]) + 2, Len(filePath))
    ELSE filePath

\* A display path that falls back to the file's base name (as the first revision did).
getRelativePathOrBasename(filePath, workspaceRoot) ==
    IF workspaceRoot # Undefined
    THEN pathRelative(workspaceRoot[1], filePath)
    ELSE pathBasename(filePath)

getRelativePathString(filePath, workspaceRoot) ==
    IF workspaceRoot # Undefined
    THEN pathRelative(workspaceRoot[1], filePath)
    ELSE filePath

\* The pieces of the entry template.  The three backquotes of the fence are written
\* ''': a TLA+ string cannot hold a backquote.
HeaderLabel == "#### FILE: "
FenceOpen == "\n'''\n"
FenceClose == "\n'''\n\n"

\* The template of the earlier revisions: the path between dashes.
formatFileContentWithDashes(filePath, fileContent, folders) ==
    LET workspaceRootUri == getWorkspaceRootForUri(filePath, folders)
        pathString == getRelativePathString(filePath, workspaceRootUri)
    IN  <<"--- FILE: ">> \o pathString \o <<" ---", FenceOpen>> \o fileContent
            \o <<FenceClose>>

formatFileContentForClipboard(filePath, fileContent, folders) ==
    LET workspaceRootUri == getWorkspaceRootForUri(filePath, folders)
        pathString == getRelativePathString(filePath, workspaceRootUri)
    IN  <<HeaderLabel>> \o pathString \o <<FenceOpen>> \o fileContent \o <<FenceClose>>

\* Reading an entry back: the display path is what stands between the label and
\* the opening fence, the fenced region what stands between the two fences.
RECURSIVE indexOf(_, _, _)
indexOf(s, tok, i) ==
    IF i > Len(s) THEN 0 ELSE IF s[i] = tok THEN i ELSE indexOf(s, tok, i + 1)

entryLabel(entry) == IF entry = <<>> THEN "" ELSE entry[1]
entryPath(entry) == SubSeq(entry, 2, indexOf(entry, FenceOpen, 1) - 1)
entryBody(entry) == SubSeq(entry, indexOf(entry, FenceOpen, 1) + 1, Len(entry) - 1)

----------------------------------------------------------------------------
(* The binary heuristic *)

chunk_size == 1024

\* A regular file as the heuristic and the readers see it: its bytes, and whether
\* fs.promises.open, fileHandle.read and fs.promises.readFile fail on it.
FileNode(bytes, openErr, readErr, readFileErr) ==
    [type |-> 1, bytes |-> bytes, openErr |-> openErr, readErr |-> readErr,
     readFileErr |-> readFileErr]

\* fileHandle.read(buffer, 0, chunk_size, 0) on a zero-filled Uint8Array(chunk_size):
\* the bytes read, and the buffer afterwards (indexed from 0).
bytesReadOf(bytes) == Min(chunk_size, Len(bytes))
bufferAfterRead(bytes) ==
    [i \in 0..(chunk_size - 1) |-> IF i < Len(bytes) THEN bytes[i + 1] ELSE 0]

\* for (let i = 0; i < limit; i++) if (buffer[i] === 0) return true; ... return false
scanForNull(buffer, limit) == \E i \in 0..(limit - 1) : buffer[i] = 0

\* A heuristic that scans the whole buffer, not only the bytes read.
isLikelyBinaryWholeBuffer(scheme, file) ==
    IF scheme # "file" THEN FALSE
    ELSE IF file.openErr \/ file.readErr THEN TRUE
    ELSE IF bytesReadOf(file.bytes) = 0 THEN FALSE
    ELSE scanForNull(bufferAfterRead(file.bytes), chunk_size)

\* A heuristic that never finds a null byte.
isLikelyBinaryNoScan(scheme, file) ==
    IF scheme # "file" THEN FALSE
    ELSE IF file.openErr \/ file.readErr THEN TRUE
    ELSE FALSE

isLikelyBinary(scheme, file) ==
    IF scheme # "file" THEN FALSE
    ELSE IF file.openErr THEN TRUE              \* open throws: catch, return true
    ELSE IF file.readErr THEN TRUE              \* read throws: catch, return true
    ELSE LET bytesRead == bytesReadOf(file.bytes)
             buffer == bufferAfterRead(file.bytes)
         IN  IF bytesRead = 0 THEN FALSE
             ELSE scanForNull(buffer, bytesRead)

\* Buffer.toString('utf8') / readFile(path, 'utf8') on the byte values of the model:
\* 0x00 is U+0000, 0x41 is 'A', and 0xFF, which no UTF-8 sequence contains, becomes
\* the replacement character U+FFFD.
ByteValues == {0, 65, 255}
utf8Char(b) == CASE b = 0 -> "U+0000" [] b = 65 -> "A" [] b = 255 -> "U+FFFD"
\* A decoding that stops after the first chunk.
utf8DecodeFirstChunk(bytes) == [i \in 1..Min(chunk_size, Len(bytes)) |-> utf8Char(bytes[i])]

utf8Decode(bytes) == [i \in 1..Len(bytes) |-> utf8Char(bytes[i])]

\* The UTF-8 encoding of a decoded text (U+FFFD is the three bytes EF BF BD), by
\* halves.
utf8Bytes(c) ==
    CASE c = "U+0000" -> <<0>> [] c = "A" -> <<65>> [] c = "U+FFFD" -> <<239, 191, 189>>

RECURSIVE utf8Encode(_)
utf8Encode(text) ==
    IF text = <<>> THEN <<>>
    ELSE IF Len(text) = 1 THEN utf8Bytes(text[1])
    ELSE LET h == Len(text) \div 2
         IN  utf8Encode(SubSeq(text, 1, h)) \o utf8Encode(SubSeq(text, h + 1, Len(text)))

----------------------------------------------------------------------------
(* The filesystem and the folder walk *)

FileType_Unknown == 0
FileType_File == 1
FileType_Directory == 2
FileType_SymbolicLink == 64

PromptName == <<"p", "r", "o", "m", "p", "t", ".", "t", "x", "t">>

\* A directory: the names readDirectory lists, in listing order, and whether
\* listing it fails.
DirNode(entries, listErr) ==
    [type |-> FileType_Directory, entries |-> entries, listErr |-> listErr]

exists(fsys, path) == path \in DOMAIN fsys

\* vscode.workspace.fs.readDirectory(folderUri): it throws on a missing path, on
\* something that is no directory, and on a directory that cannot be listed.
readDirectoryThrows(fsys, folderUri) ==
    \/ ~exists(fsys, folderUri)
    \/ fsys[folderUri].type # FileType_Directory
    \/ fsys[folderUri].listErr

\* A listing that ends with the first entry that cannot be read or listed.
readDirectoryUpToFailure(fsys, folderUri) ==
    LET names == fsys[folderUri].entries
        node(i) == fsys[joinPath(folderUri, names[i])]
        fails(i) == IF node(i).type = FileType_Directory THEN node(i).listErr
                    ELSE node(i).openErr \/ node(i).readErr \/ node(i).readFileErr
        bad == {i \in 1..Len(names) : fails(i)}
        last == IF bad = {} THEN Len(names) ELSE CHOOSE i \in bad : \A j \in bad : i <= j
    IN  [i \in 1..last |-> <<names[i], node(i).type>>]

\* A listing that reports a symbolic link to a file as the file itself.
readDirectoryResolvingLinks(fsys, folderUri) ==
    [i \in 1..Len(fsys[folderUri].entries) |->
        LET name == fsys[folderUri].entries[i]
            type == fsys[joinPath(folderUri, name)].type
        IN  <<name, IF type = FileType_SymbolicLink + FileType_File
                    THEN FileType_File ELSE type>>]

\* Its result: [name, type] pairs in listing order.
readDirectory(fsys, folderUri) ==
    [i \in 1..Len(fsys[folderUri].entries) |->
        LET name == fsys[folderUri].entries[i]
        IN  <<name, fsys[joinPath(folderUri, name)].type>>]

Message(kind, text, arg) == [kind |-> kind, text |-> text, arg |-> arg]

\* What a walk has gathered: the entries (contents), the messages shown, and, for
\* stating properties, the file each entry was formatted from.
NoWalk == [contents |-> <<>>, shown |-> <<>>, sources |-> <<>>]

\* An exclusion that never applies.
isExcludedEntryNever(folderUri, name) == FALSE

\* The test that skips the preamble file, line 425.
isExcludedEntry(folderUri, name) ==
    name = PromptName /\ joinPath(folderUri, name) = pathJoin(folderUri, PromptName)

RECURSIVE readFolderRecursively(_, _, _)
RECURSIVE walkEntries(_, _, _, _, _, _)

\* The body of `for (const [name, type] of entries)` from entry i on.
walkEntries(fsys, folders, folderUri, entries, i, acc) ==
    IF i > Len(entries) THEN acc
    ELSE
      LET name == entries[i][1]
          type == entries[i][2]
          entryUri == joinPath(folderUri, name)
          next(a) == walkEntries(fsys, folders, folderUri, entries, i + 1, a)
      IN
        IF isExcludedEntry(folderUri, name) THEN next(acc)
        ELSE IF type = FileType_File THEN
            IF isLikelyBinary("file", fsys[entryUri])
            THEN next([acc EXCEPT !.shown =
                        Append(@, Message("warning", "Skipped binary file: ", name))])
            ELSE IF fsys[entryUri].readFileErr
            THEN next([acc EXCEPT !.shown =
                        Append(@, Message("warning", "Could not read file ", entryUri))])
            ELSE next([acc EXCEPT
                        !.contents = Append(@, formatFileContentForClipboard(
                                            entryUri, utf8Decode(fsys[entryUri].bytes), folders)),
                        !.sources = Append(@, entryUri)])
        ELSE IF type = FileType_Directory THEN
            LET sub == readFolderRecursively(fsys, folders, entryUri)
            IN  next([contents |-> acc.contents \o sub.contents,
                      shown |-> acc.shown \o sub.shown,
                      sources |-> acc.sources \o sub.sources])
        ELSE next(acc)

readFolderRecursively(fsys, folders, folderUri) ==
    IF readDirectoryThrows(fsys, folderUri)
    THEN [NoWalk EXCEPT !.shown =
            <<Message("error", "Could not read directory ", pathBasename(folderUri))>>]
    ELSE walkEntries(fsys, folders, folderUri, readDirectory(fsys, folderUri), 1, NoWalk)

----------------------------------------------------------------------------
(* The preamble *)

TwoNewlines == "\n\n"

\* fs.stat(path) throws on a missing path.
statThrows(fsys, path) == ~exists(fsys, path)

NoPrompt == [content |-> <<>>, shown |-> <<>>]

\* Lines 133-150: the project-level prompt.txt of the first workspace folder, or
\* Undefined when the lookup goes on to the global path; whatever is thrown is
\* caught and ignored.
projectPrompt(folders, fsys) ==
    IF Len(folders) = 0 THEN Undefined
    ELSE LET projectPromptFilePath == pathJoin(folders[1], PromptName)
         IN  IF /\ ~statThrows(fsys, projectPromptFilePath)
                /\ fsys[projectPromptFilePath].type = FileType_File
                /\ ~fsys[projectPromptFilePath].readFileErr
             THEN Some([content |-> utf8Decode(fsys[projectPromptFilePath].bytes)
                                       \o <<TwoNewlines>>,
                        shown |-> <<>>])
             ELSE Undefined

GlobalWarning(globalPromptFilePath) ==
    Message("warning", "Could not read global prompt file configured at ", globalPromptFilePath)

\* A global lookup that keeps its failures to itself.
globalPromptSilent(cfg, fsys) ==
    LET absGlobalPromptFilePath == cfg.globalPromptFilePath
    IN  IF /\ absGlobalPromptFilePath # <<>>
           /\ ~statThrows(fsys, absGlobalPromptFilePath)
           /\ fsys[absGlobalPromptFilePath].type = FileType_File
           /\ ~fsys[absGlobalPromptFilePath].readFileErr
           /\ fsys[absGlobalPromptFilePath].bytes # <<>>
        THEN [content |-> utf8Decode(fsys[absGlobalPromptFilePath].bytes) \o <<TwoNewlines>>,
              shown |-> <<>>]
        ELSE NoPrompt

\* Lines 152-167: the file at the configured global path (path.resolve leaves an
\* absolute path as it is).
globalPrompt(cfg, fsys) ==
    LET absGlobalPromptFilePath == cfg.globalPromptFilePath
        throws ==
            \/ statThrows(fsys, absGlobalPromptFilePath)
            \/ /\ fsys[absGlobalPromptFilePath].type = FileType_File
               /\ fsys[absGlobalPromptFilePath].readFileErr
        content ==
            IF fsys[absGlobalPromptFilePath].type = FileType_File
            THEN utf8Decode(fsys[absGlobalPromptFilePath].bytes) ELSE <<>>
    IN  IF cfg.globalPromptFilePath = <<>> THEN NoPrompt
        ELSE IF throws
        THEN [content |-> <<>>, shown |-> <<GlobalWarning(cfg.globalPromptFilePath)>>]
        ELSE [content |-> IF content # <<>> THEN content \o <<TwoNewlines>> ELSE <<>>,
              shown |-> <<>>]

\* A lookup that does not look at includePromptFile.
getPromptFileContentAlways(cfg, folders, fsys) ==
    IF projectPrompt(folders, fsys) # Undefined THEN projectPrompt(folders, fsys)[1]
    ELSE globalPrompt(cfg, fsys)

\* A lookup that prefers the global file.
getPromptFileContentGlobalFirst(cfg, folders, fsys) ==
    IF ~cfg.includePromptFile THEN NoPrompt
    ELSE IF globalPrompt(cfg, fsys).content # <<>> THEN globalPrompt(cfg, fsys)
    ELSE IF projectPrompt(folders, fsys) # Undefined THEN projectPrompt(folders, fsys)[1]
    ELSE globalPrompt(cfg, fsys)

\* getPromptFileContent: the preamble string and the messages shown on the way.
getPromptFileContent(cfg, folders, fsys) ==
    IF ~cfg.includePromptFile THEN NoPrompt
    ELSE IF projectPrompt(folders, fsys) # Undefined THEN projectPrompt(folders, fsys)[1]
    ELSE globalPrompt(cfg, fsys)

----------------------------------------------------------------------------
(* Values of the variables an operation does not use *)

NoFolders == <<>>
NoFs == <<>>
DefaultConfig == [includePromptFile |-> TRUE, globalPromptFilePath |-> <<>>]
NoMessages == <<>>
NoClipboard == <<>>

----------------------------------------------------------------------------
(* Root resolution and path formatting on drawn inputs *)

MaxDepth == 2
MaxRoots == 2

PathSegments == {<<"a">>, <<"a", "b">>, <<"b">>}

RECURSIVE SegLists(_)
SegLists(n) ==
    IF n = 0 THEN {<<>>}
    ELSE {Append(l, s) : l \in SegLists(n - 1), s \in PathSegments}

absPath(segs) == <<Sep>> \o joinSegments(segs)
AbsPaths(depth) == {absPath(l) : l \in UNION {SegLists(n) : n \in 0..depth}}

FilePaths == AbsPaths(MaxDepth)
RootPaths == AbsPaths(MaxDepth - 1)
RootSets == UNION {[1..n -> RootPaths] : n \in 0..MaxRoots}
FileTexts == {<<>>, <<"A">>}

InitResolve ==
    /\ workspaceFolders \in RootSets
    /\ call \in [fileUri : FilePaths, fileContent : FileTexts]
    /\ pc = "resolve"
    /\ ret = <<>>
    /\ fs = NoFs
    /\ config = DefaultConfig
    /\ messages = NoMessages
    /\ clipboard = NoClipboard

\* const workspaceRootUri = getWorkspaceRootForUri(fileUri)
ResolveRoot ==
    /\ pc = "resolve"
    /\ ret' = [workspaceRootUri |-> getWorkspaceRootForUri(call.fileUri, workspaceFolders)]
    /\ pc' = "format"
    /\ UNCHANGED <<workspaceFolders, fs, config, call, messages, clipboard>>

\* const pathString = getRelativePathString(fileUri, workspaceRootUri); return the entry
FormatEntry ==
    /\ pc = "format"
    /\ ret' = [workspaceRootUri |-> ret.workspaceRootUri,
               pathString |-> getRelativePathString(call.fileUri, ret.workspaceRootUri),
               entry |-> formatFileContentForClipboard(call.fileUri, call.fileContent,
                                                       workspaceFolders)]
    /\ pc' = "formatted"
    /\ UNCHANGED <<workspaceFolders, fs, config, call, messages, clipboard>>

NextResolve == ResolveRoot \/ FormatEntry

SpecResolve == InitResolve /\ [][NextResolve]_vars

\* The roots of the root set that are a string prefix of the file path.
PrefixRoots == {workspaceFolders[i] : i \in {j \in 1..Len(workspaceFolders) :
                                             startsWith(call.fileUri, workspaceFolders[j])}}
Resolved == pc \in {"format", "formatted"}

\* C1: root resolution returns the only root that is a prefix of the file path,
\* the longest one when several are, and nothing when none is (or the set is empty).
C1_LongestPrefixRoot ==
    Resolved =>
        /\ PrefixRoots = {} => ret.workspaceRootUri = Undefined
        /\ PrefixRoots # {} =>
             /\ ret.workspaceRootUri # Undefined
             /\ ret.workspaceRootUri[1] \in PrefixRoots
             /\ \A r \in PrefixRoots : Len(r) <= Len(ret.workspaceRootUri[1])
        /\ \A r \in PrefixRoots : PrefixRoots = {r} => ret.workspaceRootUri = Some(r)

\* Several roots are prefixes, and the one returned is longer than the first of them.
C1_Witness ==
    /\ Resolved
    /\ Cardinality(PrefixRoots) >= 2
    /\ ret.workspaceRootUri # Undefined
    /\ \E i \in 1..Len(workspaceFolders) :
          /\ workspaceFolders[i] \in PrefixRoots
          /\ Len(workspaceFolders[i]) < Len(ret.workspaceRootUri[1])
          /\ \A j \in 1..(i - 1) : workspaceFolders[j] \notin PrefixRoots

\* f lies in the directory r: f is r, or continues with a separator after r.
IsWithin(f, r) ==
    \/ f = r
    \/ startsWith(f, r \o <<Sep>>)
    \/ (r # <<>> /\ r[Len(r)] = Sep /\ startsWith(f, r))

\* C2: a root is returned for a file only if the file path is the root or continues
\* with a separator right after it; /foo/barbaz/x is never resolved to /foo/bar.
C2_SegmentBoundary ==
    (Resolved /\ ret.workspaceRootUri # Undefined)
        => IsWithin(call.fileUri, ret.workspaceRootUri[1])

\* C3: when resolution returns nothing, the path in the entry header is the file's
\* absolute path, unchanged.
C3_AbsoluteWhenNoRoot ==
    (pc = "formatted" /\ ret.workspaceRootUri = Undefined)
        => /\ ret.pathString = call.fileUri
           /\ entryPath(ret.entry) = call.fileUri

\* No root applies although the root set is not empty, and the entry is formatted.
C3_Witness ==
    /\ pc = "formatted"
    /\ ret.workspaceRootUri = Undefined
    /\ workspaceFolders # <<>>
    /\ Len(Segments(call.fileUri)) >= 2
    /\ entryLabel(ret.entry) = HeaderLabel

\* C4: for a root that resolution returns, the display path has no leading
\* separator and path.join(root, display path) is the file path again.
C4_RelativeRoundTrip ==
    (pc = "formatted" /\ ret.workspaceRootUri # Undefined)
        => /\ (ret.pathString = <<>> \/ ret.pathString[1] # Sep)
           /\ pathJoin(ret.workspaceRootUri[1], ret.pathString) = call.fileUri

\* A file below the one-segment root that resolution returned, formatted.
C4_Witness ==
    /\ pc = "formatted"
    /\ ret.workspaceRootUri # Undefined
    /\ Len(Segments(ret.workspaceRootUri[1])) = 1
    /\ IsWithin(call.fileUri, ret.workspaceRootUri[1])
    /\ Len(Segments(ret.pathString)) >= 1
    /\ entryPath(ret.entry) = ret.pathString

----------------------------------------------------------------------------
(* The binary heuristic on drawn inputs *)

MaxContentLen == 2

RECURSIVE ByteSeqs(_)
ByteSeqs(n) ==
    IF n = 0 THEN {<<>>}
    ELSE {Append(s, b) : s \in ByteSeqs(n - 1), b \in ByteValues}

ShortContents == UNION {ByteSeqs(n) : n \in 0..MaxContentLen}
Pad(n) == [i \in 1..n |-> 65]
\* Text up to the last byte of the chunk, or up to its end, and then a short tail.
LongContents == {Pad(n) \o t : n \in {chunk_size - 1, chunk_size}, t \in ShortContents}
Contents == ShortContents \cup LongContents

InitBinary ==
    /\ call \in [scheme : {"file", "untitled"},
                 file : {FileNode(b, o, r, FALSE) :
                            b \in Contents, o \in BOOLEAN, r \in BOOLEAN}]
    /\ pc = "check"
    /\ ret = <<>>
    /\ workspaceFolders = NoFolders
    /\ fs = NoFs
    /\ config = DefaultConfig
    /\ messages = NoMessages
    /\ clipboard = NoClipboard

CheckBinary ==
    /\ pc = "check"
    /\ ret' = [binary |-> isLikelyBinary(call.scheme, call.file)]
    /\ pc' = "checked"
    /\ UNCHANGED <<workspaceFolders, fs, config, call, messages, clipboard>>

NextBinary == CheckBinary

SpecBinary == InitBinary /\ [][NextBinary]_vars

\* The reference rule: binary on any failure to open or read; else text when empty;
\* else binary exactly when one of the first min(1024, length) bytes is 0x00.
ReferenceBinary(file) ==
    IF file.openErr \/ file.readErr THEN TRUE
    ELSE IF Len(file.bytes) = 0 THEN FALSE
    ELSE \E i \in 1..Min(1024, Len(file.bytes)) : file.bytes[i] = 0

\* C5: isLikelyBinary of a filesystem file is the reference rule, for every content
\* and read outcome; bytes at offset 1024 or later do not influence it.
C5_BinaryClassification ==
    (pc = "checked" /\ call.scheme = "file")
        => ret.binary = ReferenceBinary(call.file)

\* A readable file whose only null byte lies at offset 1024 is classified text.
C5_Witness ==
    /\ pc = "checked"
    /\ call.scheme = "file"
    /\ ~call.file.openErr /\ ~call.file.readErr
    /\ Len(call.file.bytes) > 1024
    /\ call.file.bytes[1025] = 0
    /\ ret.binary = FALSE


----------------------------------------------------------------------------
(* The folder walk on drawn trees *)

MaxNodes == 2

WalkRoot == <<"/", "w">>
UpperPromptName == <<"P", "r", "o", "m", "p", "t", ".", "t", "x", "t">>
EntryNames == {<<"a">>, PromptName, UpperPromptName}

\* The listing order of a directory: by name.
nameRank(n) == CASE n = UpperPromptName -> 1 [] n = <<"a">> -> 2 [] n = PromptName -> 3

RECURSIVE listingOf(_)
listingOf(names) ==
    IF names = {} THEN <<>>
    ELSE LET n == CHOOSE x \in names : \A y \in names : nameRank(x) <= nameRank(y)
         IN  <<n>> \o listingOf(names \ {n})

\* The kinds of file of the drawn trees.
TextFile == FileNode(<<65>>, FALSE, FALSE, FALSE)
NullAtFiveFile == FileNode(<<65, 65, 65, 65, 65, 0>>, FALSE, FALSE, FALSE)
LateNullFile == FileNode(Pad(chunk_size) \o <<0>>, FALSE, FALSE, FALSE)
InvalidUtf8File == FileNode(<<65, 255>>, FALSE, FALSE, FALSE)
EmptyFile == FileNode(<<>>, FALSE, FALSE, FALSE)
DeniedFile == FileNode(<<65>>, TRUE, FALSE, TRUE)
ReadFailFile == FileNode(<<65>>, FALSE, FALSE, TRUE)
FileKinds == {TextFile, NullAtFiveFile, LateNullFile, InvalidUtf8File, EmptyFile,
              DeniedFile, ReadFailFile}
DirKinds == {[type |-> FileType_Directory, listErr |-> e] : e \in BOOLEAN}

\* Entries that are neither a regular file nor a directory: something of unknown
\* type, and symbolic links, whose type is SymbolicLink combined with the type of
\* what they point to (the text file a of the walked folder, or the walked folder
\* itself: a link back to an ancestor).
SpecialNode(type, target) ==
    [type |-> type, target |-> target, bytes |-> <<65>>, openErr |-> FALSE,
     readErr |-> FALSE, readFileErr |-> FALSE]
UnknownNode == SpecialNode(FileType_Unknown, <<>>)
LinkToFile == SpecialNode(FileType_SymbolicLink + FileType_File, <<"/", "w", "/", "a">>)
LinkToAncestor == SpecialNode(FileType_SymbolicLink + FileType_Directory, <<"/", "w">>)
SpecialKinds == {UnknownNode, LinkToFile, LinkToAncestor}

\* The shapes of a tree below the walked folder: sets of at most n paths (each a
\* list of names), closed under taking the parent.
RECURSIVE TreeShapes(_)
TreeShapes(n) ==
    IF n = 0 THEN {{}}
    ELSE LET prev == TreeShapes(n - 1)
         IN  prev \cup UNION {{T \cup {Append(p, nm)} :
                                   p \in T \cup {<<>>}, nm \in EntryNames} : T \in prev}

childNames(T, p) ==
    {q[Len(q)] : q \in {x \in T : Len(x) = Len(p) + 1 /\ SubSeq(x, 1, Len(p)) = p}}

RECURSIVE underFolder(_, _)
underFolder(base, rel) ==
    IF rel = <<>> THEN base ELSE underFolder(joinPath(base, Head(rel)), Tail(rel))

\* The kinds a shape's nodes can have: a node with children is a directory.
KindsOf(T) ==
    {k \in [T -> FileKinds \cup DirKinds \cup SpecialKinds] :
        \A p \in T : childNames(T, p) # {} => k[p].type = FileType_Directory}

\* The filesystem of a shape with its kinds, below a walked folder that can or cannot
\* be listed.
MakeFs(T, k, rootListErr) ==
    [path \in {underFolder(WalkRoot, p) : p \in T \cup {<<>>}} |->
        LET rel == CHOOSE p \in T \cup {<<>>} : underFolder(WalkRoot, p) = path
        IN  IF rel = <<>> THEN DirNode(listingOf(childNames(T, rel)), rootListErr)
            ELSE IF k[rel].type = FileType_Directory
                 THEN DirNode(listingOf(childNames(T, rel)), k[rel].listErr)
                 ELSE k[rel]]

ShapeWithKinds(T) == {[shape |-> T, kinds |-> k] : k \in KindsOf(T)}
TreesWithKinds == UNION {ShapeWithKinds(T) : T \in TreeShapes(MaxNodes)}

WalkFileSystems == {MakeFs(tk.shape, tk.kinds, e) : tk \in TreesWithKinds, e \in BOOLEAN}

WalkRootSets == {<<>>, <<WalkRoot>>, <<WalkRoot, joinPath(WalkRoot, <<"a">>)>>}

InitWalk ==
    /\ fs \in WalkFileSystems
    /\ workspaceFolders \in WalkRootSets
    /\ call = [folderUri |-> WalkRoot]
    /\ pc = "walk"
    /\ ret = <<>>
    /\ config = DefaultConfig
    /\ messages = NoMessages
    /\ clipboard = NoClipboard

\* const folderFiles = await readFolderRecursively(folderUri)
WalkFolder ==
    /\ pc = "walk"
    /\ ret' = readFolderRecursively(fs, workspaceFolders, call.folderUri)
    /\ messages' = messages \o ret'.shown
    /\ pc' = "walked"
    /\ UNCHANGED <<workspaceFolders, fs, config, call, clipboard>>

NextWalk == WalkFolder

SpecWalk == InitWalk /\ [][NextWalk]_vars


(* What the claims about the walk speak of *)

Range(seq) == {seq[i] : i \in DOMAIN seq}
Count(seq, x) == Cardinality({i \in DOMAIN seq : seq[i] = x})

\* The regular files below a folder.
FilesBelow(fsys, folder) ==
    {f \in DOMAIN fsys : f # folder /\ IsWithin(f, folder) /\ fsys[f].type = FileType_File}

\* The directories on the way from the folder (included) down to a path (excluded).
DirsAbove(fsys, folder, f) ==
    {d \in DOMAIN fsys : d # f /\ IsWithin(f, d) /\ IsWithin(d, folder)}

siblings(fsys, f) ==
    {g \in DOMAIN fsys : g # f /\ Len(Segments(g)) = Len(Segments(f))
                         /\ \A i \in 1..(Len(Segments(f)) - 1) : Segments(g)[i] = Segments(f)[i]}

hasNullInFirstChunk(bytes) == \E i \in 1..Min(1024, Len(bytes)) : bytes[i] = 0
isValidUtf8(bytes) == \A i \in 1..Len(bytes) : bytes[i] # 255
isReadable(node) == ~node.openErr /\ ~node.readErr /\ ~node.readFileErr

\* Every directory from the folder down to the file can be listed.
Listable(fsys, folder, f) ==
    \A d \in DirsAbove(fsys, folder, f) :
        fsys[d].type = FileType_Directory /\ ~fsys[d].listErr

\* The walk of the folder lists the directory that holds the file, and the file's
\* own name is not prompt.txt: no directory on the way is unlistable or skipped.
Examined(fsys, folder, f) ==
    /\ Listable(fsys, folder, f)
    /\ \A d \in DirsAbove(fsys, folder, f) : d # folder => pathBasename(d) # PromptName
    /\ pathBasename(f) # PromptName

SkippedBinary(name) == Message("warning", "Skipped binary file: ", name)

Walked == pc = "walked"

\* C6 as stated: a file with a null byte in its first 1024 bytes never appears as
\* an entry and is not counted, a warning is surfaced for each such file, and the
\* walk goes on with the other entries (every directory being listable).
C6_BinarySkipEveryFile ==
    Walked =>
        \A f \in FilesBelow(fs, call.folderUri) :
            (Listable(fs, call.folderUri, f) /\ hasNullInFirstChunk(fs[f].bytes)) =>
                /\ f \notin Range(ret.sources)
                /\ SkippedBinary(pathBasename(f)) \in Range(ret.shown)

\* C6, amended: a file with a null byte in its first 1024 bytes never appears as an
\* entry (no entry comes from it, and no entry's fenced region has U+0000 among its
\* first 1024 characters), so it is never counted; every such file that the walk
\* examines gets a warning of its own, and the examined text files beside it are
\* still emitted.
C6_BinarySkip ==
    Walked =>
        /\ \A f \in FilesBelow(fs, call.folderUri) :
              hasNullInFirstChunk(fs[f].bytes) => f \notin Range(ret.sources)
        /\ \A i \in DOMAIN ret.contents :
              \A j \in 1..Min(1024, Len(entryBody(ret.contents[i]))) :
                  entryBody(ret.contents[i])[j] # "U+0000"
        /\ Len(ret.contents) = Len(ret.sources)
        /\ \A n \in EntryNames :
              Count(ret.shown, SkippedBinary(n)) >=
                 Cardinality({f \in FilesBelow(fs, call.folderUri) :
                                 /\ Examined(fs, call.folderUri, f)
                                 /\ pathBasename(f) = n
                                 /\ hasNullInFirstChunk(fs[f].bytes)})
        /\ \A f \in FilesBelow(fs, call.folderUri) :
              (Examined(fs, call.folderUri, f) /\ hasNullInFirstChunk(fs[f].bytes)) =>
                 \A g \in siblings(fs, f) :
                    (/\ fs[g].type = FileType_File
                     /\ pathBasename(g) # PromptName
                     /\ isReadable(fs[g])
                     /\ ~hasNullInFirstChunk(fs[g].bytes)) => g \in Range(ret.sources)

\* A file with 0x00 at offset 5 is listed before a text file: it is skipped with a
\* warning and the text file is the only entry.
C6_Witness ==
    /\ Walked
    /\ \E f \in FilesBelow(fs, call.folderUri), g \in FilesBelow(fs, call.folderUri) :
          /\ fs[f] = NullAtFiveFile
          /\ fs[g] = TextFile
          /\ g \in siblings(fs, f)
          /\ f \notin Range(ret.sources)
          /\ ret.sources = <<g>>
          /\ ret.shown = <<SkippedBinary(pathBasename(f))>>

\* C7 as stated: every file of the walked tree with a non-empty body and no null
\* byte in its first 1024 bytes is an entry whose fenced region is its content
\* (every directory being listable and the file readable).
C7_TextIncludedEveryFile ==
    Walked =>
        \A f \in FilesBelow(fs, call.folderUri) :
            (/\ Listable(fs, call.folderUri, f)
             /\ isReadable(fs[f])
             /\ Len(fs[f].bytes) > 0
             /\ ~hasNullInFirstChunk(fs[f].bytes)) =>
                \E i \in DOMAIN ret.sources :
                    /\ ret.sources[i] = f
                    /\ utf8Encode(entryBody(ret.contents[i])) = fs[f].bytes

\* C7, amended: every file the walk examines that can be read, holds valid UTF-8,
\* has a non-empty body and no null byte in its first 1024 bytes is an entry whose
\* fenced region is the file's content.
C7_TextIncluded ==
    Walked =>
        \A f \in FilesBelow(fs, call.folderUri) :
            (/\ Examined(fs, call.folderUri, f)
             /\ isReadable(fs[f])
             /\ isValidUtf8(fs[f].bytes)
             /\ Len(fs[f].bytes) > 0
             /\ ~hasNullInFirstChunk(fs[f].bytes)) =>
                \E i \in DOMAIN ret.sources :
                    /\ ret.sources[i] = f
                    /\ utf8Encode(entryBody(ret.contents[i])) = fs[f].bytes
                    /\ entryBody(ret.contents[i]) = utf8Decode(fs[f].bytes)

\* A file of 1025 bytes whose only null byte is the last one is an entry, with all
\* its 1025 characters.
C7_Witness ==
    /\ Walked
    /\ \E i \in DOMAIN ret.sources :
          /\ fs[ret.sources[i]] = LateNullFile
          /\ Len(entryBody(ret.contents[i])) = chunk_size + 1
          /\ Len(Segments(ret.sources[i])) = 3

\* C10: every regular file below the walked folder, at any depth, that is readable,
\* not binary and not named prompt.txt yields exactly one entry, whatever its
\* ancestor directories are called (they are taken to be listable).
C10_FullTraversal ==
    Walked =>
        \A f \in FilesBelow(fs, call.folderUri) :
            (/\ Listable(fs, call.folderUri, f)
             /\ isReadable(fs[f])
             /\ ~hasNullInFirstChunk(fs[f].bytes)
             /\ pathBasename(f) # PromptName) => Count(ret.sources, f) = 1


----------------------------------------------------------------------------
(* The copy commands *)

MaxSelected == 2

GlobalPromptPath == <<"/", "g">>
MissingPath == <<"/", "m">>
GlobalPromptFile == FileNode(<<65, 65>>, FALSE, FALSE, FALSE)

\* A second folder, outside the workspace, with one text file.
OtherRoot == <<"/", "o">>
OtherFilePath == joinPath(OtherRoot, <<"a">>)
OtherFile == FileNode(<<65, 65, 65>>, FALSE, FALSE, FALSE)

\* The trees the commands run on: at most two entries below /w, each a file (text,
\* binary, unreadable, failing on readFile) or a listable directory; the global
\* prompt file /g; and the folder /o.  /m does not exist.
CmdShapes == TreeShapes(2)
CmdKindsOf(T) ==
    {k \in [T -> {TextFile, NullAtFiveFile, DeniedFile, ReadFailFile,
                  [type |-> FileType_Directory, listErr |-> FALSE]}] :
        \A p \in T : childNames(T, p) # {} => k[p].type = FileType_Directory}
CmdFs(T, k) ==
    LET tree == MakeFs(T, k, FALSE)
    IN  [path \in DOMAIN tree \cup {GlobalPromptPath, OtherRoot, OtherFilePath} |->
            IF path = GlobalPromptPath THEN GlobalPromptFile
            ELSE IF path = OtherRoot THEN DirNode(<<<<"a">>>>, FALSE)
            ELSE IF path = OtherFilePath THEN OtherFile
            ELSE tree[path]]

\* One deeper tree: /w lists the directory Prompt.txt, which holds the text file a,
\* and then the text file a.
NestedShape == {<<UpperPromptName>>, <<UpperPromptName, <<"a">>>>, <<<<"a">>>>}
NestedKinds ==
    [p \in NestedShape |->
        IF p = <<UpperPromptName>> THEN [type |-> FileType_Directory, listErr |-> FALSE]
        ELSE IF p = <<<<"a">>>> THEN TextFile ELSE OtherFile]

CmdFileSystems ==
    UNION {{CmdFs(T, k) : k \in CmdKindsOf(T)} : T \in CmdShapes}
    \cup {CmdFs(NestedShape, NestedKinds)}

CmdRootSets == {<<>>, <<WalkRoot>>}
\* The settings: the global path is unset, or names /g, or names /w/a (which can be
\* missing, unreadable or a directory).
CmdConfigs ==
    {[includePromptFile |-> FALSE, globalPromptFilePath |-> <<>>],
     [includePromptFile |-> FALSE, globalPromptFilePath |-> GlobalPromptPath],
     [includePromptFile |-> TRUE, globalPromptFilePath |-> <<>>],
     [includePromptFile |-> TRUE, globalPromptFilePath |-> GlobalPromptPath],
     [includePromptFile |-> TRUE, globalPromptFilePath |-> joinPath(WalkRoot, <<"a">>)]}

\* What the user can select in the explorer.
SelectableUris ==
    {WalkRoot, joinPath(WalkRoot, <<"a">>), joinPath(WalkRoot, PromptName), MissingPath,
     OtherRoot}
Selections == UNION {[1..n -> SelectableUris] : n \in 0..MaxSelected}

\* The arguments the explorer passes: the clicked item and all selected items (the
\* clicked one first), or the clicked item alone, or nothing (command palette).
CommandArgs ==
    {[context |-> Undefined, selected |-> <<>>]}
    \cup {[context |-> Some(u), selected |-> <<>>] : u \in SelectableUris}
    \cup {[context |-> Some(sel[1]), selected |-> sel] : sel \in Selections \ {<<>>}}

\* The documents the editor can have open: a saved file with unsaved changes (its
\* text is not what the disk holds), or an untitled buffer.
DirtyText == <<"A", "A", "A">>
FileDocument(fsPath) ==
    [scheme |-> "file", isUntitled |-> FALSE, fsPath |-> fsPath, text |-> DirtyText]
UntitledDocument ==
    [scheme |-> "untitled", isUntitled |-> TRUE, fsPath |-> <<"U">>, text |-> DirtyText]
OpenDocuments ==
    {FileDocument(joinPath(WalkRoot, <<"a">>)), FileDocument(joinPath(WalkRoot, PromptName)),
     UntitledDocument}
TextDocuments == UNION {[1..n -> OpenDocuments] : n \in 0..MaxSelected}

Init ==
    /\ fs \in CmdFileSystems
    /\ workspaceFolders \in CmdRootSets
    /\ config \in CmdConfigs
    /\ pc = "idle"
    /\ call = <<>>
    /\ ret = <<>>
    /\ messages = NoMessages
    /\ clipboard = NoClipboard

\* The targets of a command: the selection, else the clicked item, else nothing.
targetsOf(args) ==
    IF Len(args.selected) > 0 THEN args.selected
    ELSE IF args.context # Undefined THEN <<args.context[1]>>
    ELSE <<>>

show(kind, text, arg) == messages' = Append(messages, Message(kind, text, arg))

\* The locals of a running copyFolderContent, lines 455-473 and 486: sources is,
\* for stating properties, the file each entry was formatted from, next the
\* position of the loop.
FolderCopy(foldersToCopy, promptContent) ==
    [cmd |-> "copyFolderContent",
     foldersToCopy |-> foldersToCopy,
     promptContent |-> promptContent,
     allClipboardContent |-> IF promptContent # <<>> THEN <<promptContent>> ELSE <<>>,
     allFilesCount |-> 0,
     actualFoldersToProcess |-> <<>>,
     sources |-> <<>>,
     next |-> 1]

\* The locals of a running copyFileNamesAndContent, lines 267-286.
FileCopy(filesToProcess, promptContent) ==
    [cmd |-> "copyFileNamesAndContent",
     filesToProcess |-> filesToProcess,
     promptContent |-> promptContent,
     clipboardContent |-> IF promptContent # <<>> THEN <<promptContent>> ELSE <<>>,
     filesToCopy |-> <<>>,
     sources |-> <<>>,
     next |-> 1]

(* llmCopier.copyFolderContent *)

\* Lines 454-473: the targets, and the preamble.
CopyFolderContent_Begin(args) ==
    /\ pc = "idle"
    /\ LET foldersToCopy == targetsOf(args)
           prompt == getPromptFileContent(config, workspaceFolders, fs)
       IN  IF Len(foldersToCopy) = 0
           THEN /\ show("error", "No folders selected.", <<>>)
                /\ call' = FolderCopy(foldersToCopy, <<>>)
                /\ pc' = "done"
           ELSE /\ messages' = messages \o prompt.shown
                /\ call' = FolderCopy(foldersToCopy, prompt.content)
                /\ pc' = "cf_validate"
    /\ UNCHANGED <<workspaceFolders, fs, config, ret, clipboard>>

\* The selected items that stat finds to be directories, in selection order.
RECURSIVE validFolders(_, _)
validFolders(fsys, uris) ==
    IF uris = <<>> THEN <<>>
    ELSE (IF ~statThrows(fsys, Head(uris)) /\ fsys[Head(uris)].type = FileType_Directory
          THEN <<Head(uris)>> ELSE <<>>) \o validFolders(fsys, Tail(uris))

\* No warning at all.
accessWarningsNone(fsys, uris) == <<>>

\* The warnings of the items stat fails on.
RECURSIVE accessWarnings(_, _)
accessWarnings(fsys, uris) ==
    IF uris = <<>> THEN <<>>
    ELSE (IF statThrows(fsys, Head(uris))
          THEN <<Message("warning", "Could not access selected item ", pathBasename(Head(uris)))>>
          ELSE <<>>) \o accessWarnings(fsys, Tail(uris))

\* Lines 475-491: stat every target, keep the directories.  The stats run
\* concurrently; their warnings are taken in selection order.
CopyFolderContent_Validate ==
    /\ pc = "cf_validate"
    /\ LET actual == validFolders(fs, call.foldersToCopy)
           warned == messages \o accessWarnings(fs, call.foldersToCopy)
       IN  IF Len(actual) = 0
           THEN /\ messages' = Append(warned,
                        Message("information",
                                "No valid folders found among selected items to copy.", <<>>))
                /\ call' = call
                /\ pc' = "done"
           ELSE /\ messages' = warned
                /\ call' = [call EXCEPT !.actualFoldersToProcess = actual]
                /\ pc' = "cf_walk"
    /\ UNCHANGED <<workspaceFolders, fs, config, ret, clipboard>>

\* A loop that puts the files of a folder in front of what it has gathered.
CopyFolderContent_WalkPrepending ==
    /\ pc = "cf_walk"
    /\ call.next <= Len(call.actualFoldersToProcess)
    /\ LET folderFiles == readFolderRecursively(fs, workspaceFolders,
                                                call.actualFoldersToProcess[call.next])
       IN  /\ messages' = messages \o folderFiles.shown
           /\ call' = [call EXCEPT
                         !.allClipboardContent = folderFiles.contents \o @,
                         !.allFilesCount = @ + Len(folderFiles.contents),
                         !.sources = folderFiles.sources \o @,
                         !.next = @ + 1]
    /\ UNCHANGED <<workspaceFolders, fs, config, pc, ret, clipboard>>

\* A loop that hands what it has gathered to the clipboard after every folder.
CopyFolderContent_WalkWritingEach ==
    /\ pc = "cf_walk"
    /\ call.next <= Len(call.actualFoldersToProcess)
    /\ LET folderFiles == readFolderRecursively(fs, workspaceFolders,
                                                call.actualFoldersToProcess[call.next])
       IN  /\ messages' = messages \o folderFiles.shown
           /\ call' = [call EXCEPT
                         !.allClipboardContent = @ \o folderFiles.contents,
                         !.allFilesCount = @ + Len(folderFiles.contents),
                         !.sources = @ \o folderFiles.sources,
                         !.next = @ + 1]
           /\ clipboard' = Append(clipboard, joinStrings(call'.allClipboardContent))
    /\ UNCHANGED <<workspaceFolders, fs, config, pc, ret>>

\* Lines 498-503: one turn of the loop over the valid folders.
CopyFolderContent_Walk ==
    /\ pc = "cf_walk"
    /\ call.next <= Len(call.actualFoldersToProcess)
    /\ LET folderFiles == readFolderRecursively(fs, workspaceFolders,
                                                call.actualFoldersToProcess[call.next])
       IN  /\ messages' = messages \o folderFiles.shown
           /\ call' = [call EXCEPT
                         !.allClipboardContent = @ \o folderFiles.contents,
                         !.allFilesCount = @ + Len(folderFiles.contents),
                         !.sources = @ \o folderFiles.sources,
                         !.next = @ + 1]
    /\ UNCHANGED <<workspaceFolders, fs, config, pc, ret, clipboard>>

\* An end that writes whatever it has gathered, were it the preamble alone.
CopyFolderContent_FinishWritingAny ==
    /\ pc = "cf_walk"
    /\ call.next > Len(call.actualFoldersToProcess)
    /\ IF Len(call.allClipboardContent) > 0
       THEN /\ clipboard' = Append(clipboard, joinStrings(call.allClipboardContent))
            /\ show("information", "Copied files from folders to clipboard.",
                    <<call.allFilesCount, Len(call.actualFoldersToProcess)>>)
       ELSE /\ clipboard' = clipboard
            /\ show("information",
                    "No readable, non-binary files found in selected folder(s) to copy.", <<>>)
    /\ pc' = "done"
    /\ UNCHANGED <<workspaceFolders, fs, config, call, ret>>

\* Lines 505-511: the clipboard, or nothing to copy.
CopyFolderContent_Finish ==
    /\ pc = "cf_walk"
    /\ call.next > Len(call.actualFoldersToProcess)
    /\ IF call.allFilesCount > 0
       THEN /\ clipboard' = Append(clipboard, joinStrings(call.allClipboardContent))
            /\ show("information", "Copied files from folders to clipboard.",
                    <<call.allFilesCount, Len(call.actualFoldersToProcess)>>)
       ELSE /\ clipboard' = clipboard
            /\ show("information",
                    "No readable, non-binary files found in selected folder(s) to copy.", <<>>)
    /\ pc' = "done"
    /\ UNCHANGED <<workspaceFolders, fs, config, call, ret>>


(* llmCopier.copyFileNamesAndContent *)

\* Lines 266-284: the targets, and the preamble.
CopyFileNamesAndContent_Begin(args) ==
    /\ pc = "idle"
    /\ LET filesToProcess == targetsOf(args)
           prompt == getPromptFileContent(config, workspaceFolders, fs)
       IN  IF Len(filesToProcess) = 0
           THEN /\ show("information", "No valid items selected to copy.", <<>>)
                /\ call' = FileCopy(filesToProcess, <<>>)
                /\ pc' = "done"
           ELSE /\ messages' = messages \o prompt.shown
                /\ call' = FileCopy(filesToProcess, prompt.content)
                /\ pc' = "cn_filter"
    /\ UNCHANGED <<workspaceFolders, fs, config, ret, clipboard>>

\* A filtering loop that applies the walk's exclusion to the selected items.
CopyFileNamesAndContent_FilterExcluding ==
    /\ pc = "cn_filter"
    /\ call.next <= Len(call.filesToProcess)
    /\ LET uri == call.filesToProcess[call.next]
       IN  IF statThrows(fs, uri) \/ pathBasename(uri) = PromptName
           THEN /\ messages' = messages
                /\ call' = [call EXCEPT !.next = @ + 1]
           ELSE IF fs[uri].type # FileType_File \/ isLikelyBinary("file", fs[uri])
           THEN /\ messages' = messages
                /\ call' = [call EXCEPT !.next = @ + 1]
           ELSE /\ messages' = messages
                /\ call' = [call EXCEPT !.next = @ + 1,
                                        !.filesToCopy = Append(@, uri)]
    /\ UNCHANGED <<workspaceFolders, fs, config, pc, ret, clipboard>>

\* Lines 288-302: one turn of the filtering loop.
CopyFileNamesAndContent_Filter ==
    /\ pc = "cn_filter"
    /\ call.next <= Len(call.filesToProcess)
    /\ LET uri == call.filesToProcess[call.next]
       IN  IF statThrows(fs, uri)
           THEN /\ show("warning", "Could not access selected item ", pathBasename(uri))
                /\ call' = [call EXCEPT !.next = @ + 1]
           ELSE IF fs[uri].type # FileType_File
           THEN /\ messages' = messages
                /\ call' = [call EXCEPT !.next = @ + 1]
           ELSE IF isLikelyBinary("file", fs[uri])
           THEN /\ show("warning", "Skipped binary file: ", pathBasename(uri))
                /\ call' = [call EXCEPT !.next = @ + 1]
           ELSE /\ messages' = messages
                /\ call' = [call EXCEPT !.next = @ + 1,
                                        !.filesToCopy = Append(@, uri)]
    /\ UNCHANGED <<workspaceFolders, fs, config, pc, ret, clipboard>>

\* Lines 305-308: the end of the filtering loop.
CopyFileNamesAndContent_Filtered ==
    /\ pc = "cn_filter"
    /\ call.next > Len(call.filesToProcess)
    /\ IF Len(call.filesToCopy) = 0
       THEN /\ show("information", "No non-binary files were found to copy.", <<>>)
            /\ call' = call
            /\ pc' = "done"
       ELSE /\ messages' = messages
            /\ call' = [call EXCEPT !.next = 1]
            /\ pc' = "cn_read"
    /\ UNCHANGED <<workspaceFolders, fs, config, ret, clipboard>>

\* Lines 310-318: one turn of the reading loop.
CopyFileNamesAndContent_Read ==
    /\ pc = "cn_read"
    /\ call.next <= Len(call.filesToCopy)
    /\ LET fileUri == call.filesToCopy[call.next]
       IN  IF fs[fileUri].readFileErr
           THEN /\ show("warning", "Could not read file ", pathBasename(fileUri))
                /\ call' = [call EXCEPT !.next = @ + 1]
           ELSE /\ messages' = messages
                /\ call' = [call EXCEPT
                              !.next = @ + 1,
                              !.clipboardContent =
                                  Append(@, formatFileContentForClipboard(
                                                fileUri, utf8Decode(fs[fileUri].bytes),
                                                workspaceFolders)),
                              !.sources = Append(@, fileUri)]
    /\ UNCHANGED <<workspaceFolders, fs, config, pc, ret, clipboard>>

\* An end that counts every string gathered, the preamble too.
CopyFileNamesAndContent_FinishCountingAll ==
    /\ pc = "cn_read"
    /\ call.next > Len(call.filesToCopy)
    /\ LET filesCopiedCount == Len(call.clipboardContent)
       IN  IF filesCopiedCount > 0
           THEN /\ clipboard' = Append(clipboard, joinStrings(call.clipboardContent))
                /\ show("information", "Copied files to clipboard.", <<filesCopiedCount>>)
           ELSE /\ clipboard' = clipboard
                /\ show("information", "No files were copied.", <<>>)
    /\ pc' = "done"
    /\ UNCHANGED <<workspaceFolders, fs, config, call, ret>>

\* Lines 320-328: the count, and the clipboard.
CopyFileNamesAndContent_Finish ==
    /\ pc = "cn_read"
    /\ call.next > Len(call.filesToCopy)
    /\ LET filesCopiedCount ==
               Len(call.clipboardContent) - (IF call.promptContent # <<>> THEN 1 ELSE 0)
       IN  IF filesCopiedCount > 0
           THEN /\ clipboard' = Append(clipboard, joinStrings(call.clipboardContent))
                /\ show("information", "Copied files to clipboard.", <<filesCopiedCount>>)
           ELSE /\ clipboard' = clipboard
                /\ show("information", "No files were copied.", <<>>)
    /\ pc' = "done"
    /\ UNCHANGED <<workspaceFolders, fs, config, call, ret>>

(* llmCopier.copyAllOpenFiles *)

\* The locals of a running copyAllOpenFiles, lines 517-524.
OpenCopy(textDocuments, promptContent) ==
    [cmd |-> "copyAllOpenFiles",
     textDocuments |-> textDocuments,
     promptContent |-> promptContent,
     openFilesToCopy |-> IF promptContent # <<>> THEN <<promptContent>> ELSE <<>>,
     actualFilesCopiedCount |-> 0,
     sources |-> <<>>,
     next |-> 1]

\* Lines 516-524: the preamble.
CopyAllOpenFiles_Begin(textDocuments) ==
    /\ pc = "idle"
    /\ LET prompt == getPromptFileContent(config, workspaceFolders, fs)
       IN  /\ messages' = messages \o prompt.shown
           /\ call' = OpenCopy(textDocuments, prompt.content)
    /\ pc' = "ao_loop"
    /\ UNCHANGED <<workspaceFolders, fs, config, ret, clipboard>>

\* A loop that takes the text of a document from its file on disk.
CopyAllOpenFiles_DocumentFromDisk ==
    /\ pc = "ao_loop"
    /\ call.next <= Len(call.textDocuments)
    /\ LET document == call.textDocuments[call.next]
           onDisk == IF exists(fs, document.fsPath) /\ fs[document.fsPath].type = FileType_File
                     THEN fs[document.fsPath]
                     ELSE FileNode(<<>>, TRUE, FALSE, TRUE)
       IN  IF ~(document.scheme = "file" /\ ~document.isUntitled)
           THEN /\ messages' = messages
                /\ call' = [call EXCEPT !.next = @ + 1]
           ELSE IF isLikelyBinary(document.scheme, onDisk)
           THEN /\ show("warning", "Skipped open binary file: ", pathBasename(document.fsPath))
                /\ call' = [call EXCEPT !.next = @ + 1]
           ELSE /\ messages' = messages
                /\ call' = [call EXCEPT
                              !.next = @ + 1,
                              !.openFilesToCopy =
                                  Append(@, formatFileContentForClipboard(
                                                document.fsPath, utf8Decode(onDisk.bytes),
                                                workspaceFolders)),
                              !.actualFilesCopiedCount = @ + 1,
                              !.sources = Append(@, document.fsPath)]
    /\ UNCHANGED <<workspaceFolders, fs, config, pc, ret, clipboard>>

\* Lines 525-540: one turn of the loop over the open documents.  isLikelyBinary
\* looks at the file on disk, getText at the editor's buffer.
CopyAllOpenFiles_Document ==
    /\ pc = "ao_loop"
    /\ call.next <= Len(call.textDocuments)
    /\ LET document == call.textDocuments[call.next]
           onDisk == IF exists(fs, document.fsPath) /\ fs[document.fsPath].type = FileType_File
                     THEN fs[document.fsPath]
                     ELSE FileNode(<<>>, TRUE, FALSE, TRUE)
       IN  IF ~(document.scheme = "file" /\ ~document.isUntitled)
           THEN /\ messages' = messages
                /\ call' = [call EXCEPT !.next = @ + 1]
           ELSE IF isLikelyBinary(document.scheme, onDisk)
           THEN /\ show("warning", "Skipped open binary file: ", pathBasename(document.fsPath))
                /\ call' = [call EXCEPT !.next = @ + 1]
           ELSE /\ messages' = messages
                /\ call' = [call EXCEPT
                              !.next = @ + 1,
                              !.openFilesToCopy =
                                  Append(@, formatFileContentForClipboard(
                                                document.fsPath, document.text,
                                                workspaceFolders)),
                              !.actualFilesCopiedCount = @ + 1,
                              !.sources = Append(@, document.fsPath)]
    /\ UNCHANGED <<workspaceFolders, fs, config, pc, ret, clipboard>>

\* Lines 542-547: the clipboard, or nothing to copy.
CopyAllOpenFiles_Finish ==
    /\ pc = "ao_loop"
    /\ call.next > Len(call.textDocuments)
    /\ IF call.actualFilesCopiedCount > 0
       THEN /\ clipboard' = Append(clipboard, joinStrings(call.openFilesToCopy))
            /\ show("information", "Copied open files to clipboard.",
                    <<call.actualFilesCopiedCount>>)
       ELSE /\ clipboard' = clipboard
            /\ show("information", "No open, non-binary files found to copy.", <<>>)
    /\ pc' = "done"
    /\ UNCHANGED <<workspaceFolders, fs, config, call, ret>>

Next ==
    \/ \E args \in CommandArgs : CopyFolderContent_Begin(args)
    \/ CopyFolderContent_Validate
    \/ CopyFolderContent_Walk
    \/ CopyFolderContent_Finish
    \/ \E args \in CommandArgs : CopyFileNamesAndContent_Begin(args)
    \/ CopyFileNamesAndContent_Filter
    \/ CopyFileNamesAndContent_Filtered
    \/ CopyFileNamesAndContent_Read
    \/ CopyFileNamesAndContent_Finish
    \/ \E textDocuments \in TextDocuments : CopyAllOpenFiles_Begin(textDocuments)
    \/ CopyAllOpenFiles_Document
    \/ CopyAllOpenFiles_Finish

Spec == Init /\ [][Next]_vars


----------------------------------------------------------------------------
(* The exclusion of prompt.txt, in the commands *)

InFolderCopy == "cmd" \in DOMAIN call /\ call.cmd = "copyFolderContent"
InFileCopy == "cmd" \in DOMAIN call /\ call.cmd = "copyFileNamesAndContent"

ProjectPromptPath == pathJoin(WalkRoot, PromptName)

\* The project root holds a prompt.txt that the preamble lookup can read.
ProjectPromptUsable ==
    /\ config.includePromptFile
    /\ workspaceFolders = <<WalkRoot>>
    /\ exists(fs, ProjectPromptPath)
    /\ fs[ProjectPromptPath].type = FileType_File
    /\ ~fs[ProjectPromptPath].readFileErr

ProjectPreamble == utf8Decode(fs[ProjectPromptPath].bytes) \o <<TwoNewlines>>

\* The folders of the selection the walk loop has gone through.
WalkedFolders ==
    {call.actualFoldersToProcess[i] : i \in 1..Min(call.next - 1, Len(call.actualFoldersToProcess))}

\* C8: in every directory a folder walk visits, a file named exactly prompt.txt is
\* never emitted as an entry of the walk (a file named Prompt.txt is), while the
\* prompt.txt of the project root is the preamble of the same transcript.
C8_PromptExcludedInWalk ==
    InFolderCopy =>
        /\ \A i \in DOMAIN call.sources : pathBasename(call.sources[i]) # PromptName
        /\ \A d \in WalkedFolders : \A f \in FilesBelow(fs, d) :
              (/\ Examined(fs, d, f)
               /\ pathBasename(f) = UpperPromptName
               /\ isReadable(fs[f])
               /\ ~hasNullInFirstChunk(fs[f].bytes)) => f \in Range(call.sources)
        /\ (ProjectPromptUsable /\ Len(call.foldersToCopy) > 0) =>
              /\ call.promptContent = ProjectPreamble
              /\ call.allClipboardContent[1] = ProjectPreamble
              /\ Len(call.allClipboardContent) = 1 + Len(call.sources)
              /\ (pc = "done" /\ clipboard # <<>>) =>
                    SubSeq(clipboard[1], 1, Len(ProjectPreamble)) = ProjectPreamble

\* The project root /w, holding prompt.txt and a text file a, is copied: the
\* transcript is the preamble read from /w/prompt.txt and the one entry of a.
C8_Witness ==
    /\ InFolderCopy
    /\ pc = "done"
    /\ ProjectPromptUsable
    /\ fs[ProjectPromptPath] = TextFile
    /\ call.actualFoldersToProcess = <<WalkRoot>>
    /\ call.sources = <<joinPath(WalkRoot, <<"a">>)>>
    /\ clipboard = <<ProjectPreamble \o call.allClipboardContent[2]>>
    /\ entryPath(call.allClipboardContent[2]) = <<"a">>

\* The selected items named prompt.txt that are readable, non-binary regular files.
SelectedPromptFiles ==
    {u \in Range(call.filesToProcess) :
        /\ pathBasename(u) = PromptName
        /\ exists(fs, u)
        /\ fs[u].type = FileType_File
        /\ isReadable(fs[u])
        /\ ~hasNullInFirstChunk(fs[u].bytes)}

Copied(n) == Message("information", "Copied files to clipboard.", <<n>>)

\* C9: a readable, non-binary regular file named prompt.txt that the user selects
\* for copyFileNamesAndContent is emitted as a normal entry, once per selection of
\* it, and counted: the exclusion of the walk does not apply.
C9_SelectedPromptCopied ==
    (InFileCopy /\ pc = "done") =>
        \A u \in SelectedPromptFiles :
            /\ Count(call.sources, u) = Count(call.filesToProcess, u)
            /\ formatFileContentForClipboard(u, utf8Decode(fs[u].bytes), workspaceFolders)
                  \in Range(call.clipboardContent)
            /\ clipboard = <<joinStrings(call.clipboardContent)>>
            /\ messages[Len(messages)] = Copied(Len(call.sources))
            /\ Len(call.sources) >= 1

\* /w/prompt.txt, which is also the preamble, is the only selected file: the
\* transcript is the preamble followed by the entry of prompt.txt, and one file is
\* counted.
C9_Witness ==
    /\ InFileCopy
    /\ pc = "done"
    /\ ProjectPromptUsable
    /\ call.filesToProcess = <<ProjectPromptPath>>
    /\ call.sources = <<ProjectPromptPath>>
    /\ entryPath(call.clipboardContent[2]) = PromptName
    /\ clipboard = <<ProjectPreamble \o call.clipboardContent[2]>>
    /\ messages = <<Copied(1)>>


----------------------------------------------------------------------------
(* Failures during the walk *)

parentOf(path) ==
    LET segs == Segments(path) IN absPath(SubSeq(segs, 1, Len(segs) - 1))

\* The filesystem without an item: the item and everything below it are gone, and
\* its directory no longer lists it.
fsWithout(fsys, x) ==
    [path \in {q \in DOMAIN fsys : ~IsWithin(q, x)} |->
        IF path = parentOf(x)
        THEN [fsys[path] EXCEPT !.entries = SelectSeq(@, LAMBDA n : n # pathBasename(x))]
        ELSE fsys[path]]

failsToRead(node) ==
    IF node.type = FileType_Directory THEN node.listErr
    ELSE node.openErr \/ node.readErr \/ node.readFileErr

\* The files and subdirectories the walk of the folder meets and fails on.
FailingItems(fsys, folder) ==
    {x \in DOMAIN fsys : /\ x # folder
                         /\ IsWithin(x, folder)
                         /\ Examined(fsys, folder, x)
                         /\ failsToRead(fsys[x])}

\* What the walk shows for an item it failed on (a file that cannot be opened is
\* taken for a binary file).
reportOf(fsys, x) ==
    IF fsys[x].type = FileType_Directory
    THEN Message("error", "Could not read directory ", pathBasename(x))
    ELSE IF fsys[x].openErr \/ fsys[x].readErr
    THEN SkippedBinary(pathBasename(x))
    ELSE Message("warning", "Could not read file ", x)

\* C11: a file that cannot be read, or a subdirectory that cannot be listed, gives
\* no entry and is reported, and the entries of the walk are those of the walk of
\* the same tree without that item; a walked folder that cannot be listed gives no
\* entry and one error report.
C11_LocalRecovery ==
    Walked =>
        /\ \A x \in FailingItems(fs, call.folderUri) :
              /\ \A i \in DOMAIN ret.sources : ~IsWithin(ret.sources[i], x)
              /\ reportOf(fs, x) \in Range(ret.shown)
              /\ ret.contents =
                    readFolderRecursively(fsWithout(fs, x), workspaceFolders,
                                          call.folderUri).contents
        /\ readDirectoryThrows(fs, call.folderUri) =>
              /\ ret.contents = <<>>
              /\ ret.shown = <<Message("error", "Could not read directory ",
                                       pathBasename(call.folderUri))>>

\* Prompt.txt cannot be read and is listed before the text file a: one warning,
\* and the entry of a.
C11_Witness ==
    /\ Walked
    /\ LET x == joinPath(WalkRoot, UpperPromptName)
           g == joinPath(WalkRoot, <<"a">>)
       IN  /\ exists(fs, x) /\ fs[x] = ReadFailFile
           /\ exists(fs, g) /\ fs[g] = TextFile
           /\ ret.sources = <<g>>
           /\ ret.shown = <<Message("warning", "Could not read file ", x)>>


----------------------------------------------------------------------------
(* The preamble on drawn files *)

\* What can stand at the place of a preamble file: nothing, a file with some
\* content, a file that readFile fails on, a directory.
Absent == <<>>
PromptNodes ==
    {Absent, ReadFailFile, DirNode(<<>>, FALSE)}
    \cup {FileNode(b, FALSE, FALSE, FALSE) : b \in ShortContents}

PromptFs(projectNode, globalNode) ==
    LET paths == {WalkRoot, OtherRoot}
                 \cup (IF projectNode # Absent THEN {ProjectPromptPath} ELSE {})
                 \cup (IF globalNode # Absent THEN {GlobalPromptPath} ELSE {})
    IN  [path \in paths |->
            IF path = ProjectPromptPath THEN projectNode
            ELSE IF path = GlobalPromptPath THEN globalNode
            ELSE DirNode(<<>>, FALSE)]

PromptFileSystems == {PromptFs(pn, gn) : pn \in PromptNodes, gn \in PromptNodes}
PromptRootSets == {<<>>, <<WalkRoot>>, <<OtherRoot, WalkRoot>>}
PromptConfigs ==
    [includePromptFile : BOOLEAN, globalPromptFilePath : {<<>>, GlobalPromptPath}]

InitPreamble ==
    /\ fs \in PromptFileSystems
    /\ workspaceFolders \in PromptRootSets
    /\ config \in PromptConfigs
    /\ pc = "prompt"
    /\ call = <<>>
    /\ ret = <<>>
    /\ messages = NoMessages
    /\ clipboard = NoClipboard

\* const promptContent = await getPromptFileContent()
GetPrompt ==
    /\ pc = "prompt"
    /\ ret' = getPromptFileContent(config, workspaceFolders, fs)
    /\ messages' = messages \o ret'.shown
    /\ pc' = "prompted"
    /\ UNCHANGED <<workspaceFolders, fs, config, call, clipboard>>

NextPreamble == GetPrompt

SpecPreamble == InitPreamble /\ [][NextPreamble]_vars

Prompted == pc = "prompted"

\* A file that stat finds and readFile reads stands at the path.
ReadableFileAt(path) ==
    /\ path # <<>>
    /\ exists(fs, path)
    /\ fs[path].type = FileType_File
    /\ ~fs[path].readFileErr

\* stat or readFile throws at the path.
ReadFailsAt(path) ==
    \/ ~exists(fs, path)
    \/ (fs[path].type = FileType_File /\ fs[path].readFileErr)

PrimaryPromptPath == pathJoin(workspaceFolders[1], PromptName)
ProjectPromptRead == Len(workspaceFolders) > 0 /\ ReadableFileAt(PrimaryPromptPath)

\* A preamble without its two trailing newlines.
promptBody(content) ==
    IF content # <<>> /\ content[Len(content)] = TwoNewlines
    THEN SubSeq(content, 1, Len(content) - 1) ELSE content

\* C13: with includePromptFile true, a readable prompt.txt in the first workspace
\* folder is the preamble whatever the global path holds, and the global file is not
\* consulted (a global path that cannot be read gives no warning then); otherwise a
\* readable file at the configured global path is the preamble; otherwise the
\* preamble is empty.
C13_PreamblePriority ==
    (Prompted /\ config.includePromptFile) =>
        IF ProjectPromptRead
        THEN /\ promptBody(ret.content) = utf8Decode(fs[PrimaryPromptPath].bytes)
             /\ ret.content # <<>>
             /\ ret.shown = <<>>
        ELSE IF ReadableFileAt(config.globalPromptFilePath)
        THEN promptBody(ret.content) = utf8Decode(fs[config.globalPromptFilePath].bytes)
        ELSE ret.content = <<>>

\* Both files are readable and differ: the preamble is the project's.
C13_Witness ==
    /\ Prompted
    /\ config.includePromptFile
    /\ ProjectPromptRead
    /\ ReadableFileAt(config.globalPromptFilePath)
    /\ fs[config.globalPromptFilePath].bytes # <<>>
    /\ fs[config.globalPromptFilePath].bytes # fs[PrimaryPromptPath].bytes
    /\ ret.content = utf8Decode(fs[PrimaryPromptPath].bytes) \o <<TwoNewlines>>

\* C14: whenever a preamble file is read, project-level or global, the result is
\* its content followed by two newlines, for every content.
C14_PreambleFraming ==
    (Prompted /\ config.includePromptFile) =>
        /\ ProjectPromptRead =>
              ret.content = utf8Decode(fs[PrimaryPromptPath].bytes) \o <<TwoNewlines>>
        /\ (~ProjectPromptRead /\ ReadableFileAt(config.globalPromptFilePath)) =>
              ret.content =
                 utf8Decode(fs[config.globalPromptFilePath].bytes) \o <<TwoNewlines>>

IsProjectWarning(msg) ==
    msg.kind = "warning" /\ msg # GlobalWarning(config.globalPromptFilePath)

\* C16: a project-level prompt.txt that is not found falls through silently, one
\* that is there but cannot be read is surfaced as a warning before the fallback.
C16_ProjectErrorsDistinguished ==
    (Prompted /\ config.includePromptFile /\ Len(workspaceFolders) > 0) =>
        /\ ~exists(fs, PrimaryPromptPath) =>
              \A i \in DOMAIN ret.shown : ~IsProjectWarning(ret.shown[i])
        /\ (/\ exists(fs, PrimaryPromptPath)
            /\ fs[PrimaryPromptPath].type = FileType_File
            /\ fs[PrimaryPromptPath].readFileErr) =>
              \E i \in DOMAIN ret.shown : IsProjectWarning(ret.shown[i])


----------------------------------------------------------------------------
(* The transcripts of the commands *)

Running == pc # "idle"
Done == pc = "done"

\* The strings a command has gathered for the clipboard: the preamble, if there is
\* one, and the entries.
payloadParts ==
    CASE call.cmd = "copyFolderContent" -> call.allClipboardContent
      [] call.cmd = "copyFileNamesAndContent" -> call.clipboardContent
      [] call.cmd = "copyAllOpenFiles" -> call.openFilesToCopy

IsEntry(part) == part # <<>> /\ part[1] = HeaderLabel

\* C12: with includePromptFile false the preamble is the empty string whatever
\* prompt.txt the project root holds and whatever the global path names, nothing is
\* shown for it, and every transcript starts with its first entry.
C12_PreambleDisabled ==
    (Running /\ ~config.includePromptFile) =>
        /\ call.promptContent = <<>>
        /\ \A i \in DOMAIN payloadParts : IsEntry(payloadParts[i])
        /\ \A i \in DOMAIN messages :
              messages[i] # GlobalWarning(config.globalPromptFilePath)
        /\ \A i \in DOMAIN clipboard : IsEntry(clipboard[i])

\* The project root holds a readable prompt.txt and the global path names a
\* readable file, the preamble is switched off, and a transcript is written: it
\* starts with the header of its first entry.
C12_Witness ==
    /\ Done
    /\ ~config.includePromptFile
    /\ workspaceFolders = <<WalkRoot>>
    /\ exists(fs, ProjectPromptPath) /\ fs[ProjectPromptPath] = TextFile
    /\ config.globalPromptFilePath = GlobalPromptPath
    /\ Len(clipboard) = 1
    /\ clipboard[1][1] = HeaderLabel
    /\ call.promptContent = <<>>

\* The command has fetched the preamble: it did not stop for want of targets.
PromptFetched ==
    /\ Running
    /\ call.cmd = "copyFolderContent" => Len(call.foldersToCopy) > 0
    /\ call.cmd = "copyFileNamesAndContent" => Len(call.filesToProcess) > 0

\* The command went through all its targets.
LoopsCompleted ==
    CASE call.cmd = "copyFolderContent" ->
            call.actualFoldersToProcess # <<>> => call.next = Len(call.actualFoldersToProcess) + 1
      [] call.cmd = "copyFileNamesAndContent" ->
            call.filesToCopy # <<>> => call.next = Len(call.filesToCopy) + 1
      [] call.cmd = "copyAllOpenFiles" -> call.next = Len(call.textDocuments) + 1

\* C15: when the project-level preamble is not used and stat or readFile fails on
\* the configured global path, the preamble is empty and one warning is shown; when
\* the global path is unset the preamble is empty and no warning is shown; either
\* way the command runs to its end and writes its entries.
C15_GlobalPreambleFailure ==
    (PromptFetched /\ config.includePromptFile /\ ~ProjectPromptRead) =>
        /\ (config.globalPromptFilePath # <<>> /\ ReadFailsAt(config.globalPromptFilePath)) =>
              /\ call.promptContent = <<>>
              /\ messages # <<>>
              /\ messages[1] = GlobalWarning(config.globalPromptFilePath)
              /\ Count(messages, GlobalWarning(config.globalPromptFilePath)) = 1
        /\ config.globalPromptFilePath = <<>> =>
              /\ call.promptContent = <<>>
              /\ \A i \in DOMAIN messages : messages[i].text # GlobalWarning(<<>>).text
        /\ (Done /\ call.promptContent = <<>>) =>
              /\ LoopsCompleted
              /\ Len(payloadParts) = Len(call.sources)
              /\ call.sources # <<>> => clipboard = <<joinStrings(payloadParts)>>

\* The global path names a file that readFile fails on, and a file is copied: the
\* warning comes first, and the transcript is the one entry.
C15_Witness ==
    /\ Done
    /\ config.includePromptFile
    /\ ~ProjectPromptRead
    /\ exists(fs, config.globalPromptFilePath)
    /\ fs[config.globalPromptFilePath] = ReadFailFile
    /\ messages[1] = GlobalWarning(config.globalPromptFilePath)
    /\ Len(call.sources) = 1
    /\ clipboard = <<payloadParts[1]>>
    /\ IsEntry(clipboard[1])

\* The position of a name in the listing of a directory.
listIndex(fsys, dir, name) ==
    CHOOSE i \in DOMAIN fsys[dir].entries : fsys[dir].entries[i] = name

\* f comes before g in a walk: where their paths part, the name on the way to f is
\* listed before the name on the way to g.
walkBefore(fsys, f, g) ==
    LET sf == Segments(f)
        sg == Segments(g)
        k == CHOOSE n \in 0..Min(Len(sf), Len(sg)) :
                /\ SubSeq(sf, 1, n) = SubSeq(sg, 1, n)
                /\ n < Min(Len(sf), Len(sg)) /\ sf[n + 1] # sg[n + 1]
        dir == absPath(SubSeq(sf, 1, k))
    IN  listIndex(fsys, dir, sf[k + 1]) < listIndex(fsys, dir, sg[k + 1])

RECURSIVE walkOrder(_, _)
walkOrder(fsys, files) ==
    IF files = {} THEN <<>>
    ELSE LET f == CHOOSE x \in files : \A y \in files \ {x} : walkBefore(fsys, x, y)
         IN  <<f>> \o walkOrder(fsys, files \ {f})

\* The files a walk of the folder has an entry for.
eligibleBelow(fsys, folder) ==
    {f \in FilesBelow(fsys, folder) :
        /\ Examined(fsys, folder, f)
        /\ isReadable(fsys[f])
        /\ ~hasNullInFirstChunk(fsys[f].bytes)}

isCopyableFile(fsys, path) ==
    /\ exists(fsys, path)
    /\ fsys[path].type = FileType_File
    /\ isReadable(fsys[path])
    /\ ~hasNullInFirstChunk(fsys[path].bytes)

\* An open document's file passes the binary test: the text comes from the editor.
isCopyableDocument(fsys, d) ==
    /\ d.scheme = "file"
    /\ exists(fsys, d.fsPath)
    /\ fsys[d.fsPath].type = FileType_File
    /\ ~fsys[d.fsPath].openErr /\ ~fsys[d.fsPath].readErr
    /\ ~hasNullInFirstChunk(fsys[d.fsPath].bytes)

isFolder(fsys, path) == exists(fsys, path) /\ fsys[path].type = FileType_Directory

RECURSIVE foldersInOrder(_, _)
foldersInOrder(fsys, folders) ==
    IF folders = <<>> THEN <<>>
    ELSE walkOrder(fsys, eligibleBelow(fsys, Head(folders)))
            \o foldersInOrder(fsys, Tail(folders))

\* The files a finished command has entries for, in the order of the claim: target
\* by target, and within a folder in listing order, depth first.
expectedSources ==
    CASE call.cmd = "copyFolderContent" ->
            foldersInOrder(fs, SelectSeq(call.foldersToCopy, LAMBDA u : isFolder(fs, u)))
      [] call.cmd = "copyFileNamesAndContent" ->
            SelectSeq(call.filesToProcess, LAMBDA u : isCopyableFile(fs, u))
      [] call.cmd = "copyAllOpenFiles" ->
            LET docs == SelectSeq(call.textDocuments,
                                  LAMBDA d : isCopyableDocument(fs, d))
            IN  [i \in DOMAIN docs |-> docs[i].fsPath]

expectedEntry(f) ==
    formatFileContentForClipboard(
        f, IF call.cmd = "copyAllOpenFiles" THEN DirtyText ELSE utf8Decode(fs[f].bytes),
        workspaceFolders)

\* C17: the payload is the preamble, if it is not empty, and then the entries in
\* the order of the targets; for copyFolderContent the entries of a selected folder
\* come before those of the next one, and within a folder in listing order, those of
\* a subdirectory together at the place of the subdirectory.
C17_TranscriptOrder ==
    Done =>
        /\ call.sources = expectedSources
        /\ payloadParts =
              (IF call.promptContent # <<>> THEN <<call.promptContent>> ELSE <<>>)
              \o [i \in DOMAIN expectedSources |-> expectedEntry(expectedSources[i])]
        /\ clipboard # <<>> =>
              clipboard = <<call.promptContent
                            \o joinStrings([i \in DOMAIN expectedSources |->
                                               expectedEntry(expectedSources[i])])>>

\* /o and then /w are copied, with a preamble: the file of /o, the file in the
\* subdirectory of /w, the file of /w.
C17_Witness ==
    /\ Done
    /\ call.cmd = "copyFolderContent"
    /\ call.promptContent # <<>>
    /\ call.actualFoldersToProcess = <<OtherRoot, WalkRoot>>
    /\ call.sources = <<OtherFilePath,
                        joinPath(joinPath(WalkRoot, UpperPromptName), <<"a">>),
                        joinPath(WalkRoot, <<"a">>)>>
    /\ Len(clipboard) = 1
    /\ SubSeq(clipboard[1], 1, Len(call.promptContent)) = call.promptContent

\* The number of entry blocks of a payload: each starts with the header label.
blockCount(payload) == Cardinality({i \in DOMAIN payload : payload[i] = HeaderLabel})

\* The count the last message reports.
reportedCount == messages[Len(messages)].arg[1]

CopiedTexts ==
    {"Copied files to clipboard.", "Copied files from folders to clipboard.",
     "Copied open files to clipboard."}

\* C18: in every command, the count reported to the user is the number of entry
\* blocks of the payload written to the clipboard, the preamble not counted.
C18_CountAccuracy ==
    Done =>
        /\ clipboard # <<>> =>
              /\ Len(clipboard) = 1
              /\ messages[Len(messages)].text \in CopiedTexts
              /\ reportedCount = blockCount(clipboard[1])
              /\ reportedCount = Len(call.sources)
        /\ clipboard = <<>> =>
              \A i \in DOMAIN messages : messages[i].text \notin CopiedTexts

\* Two files are selected with a preamble, one of them binary: one file is
\* counted, and the payload holds one block after the preamble.
C18_Witness ==
    /\ Done
    /\ call.cmd = "copyFileNamesAndContent"
    /\ call.promptContent # <<>>
    /\ Len(call.filesToProcess) = 2
    /\ \E i \in 1..2 : /\ exists(fs, call.filesToProcess[i])
                       /\ fs[call.filesToProcess[i]] = NullAtFiveFile
    /\ messages[Len(messages)] = Copied(1)
    /\ Len(clipboard) = 1
    /\ blockCount(clipboard[1]) = 1

NothingCopiedTexts ==
    {"No valid folders found among selected items to copy.",
     "No readable, non-binary files found in selected folder(s) to copy.",
     "No non-binary files were found to copy.",
     "No files were copied.",
     "No open, non-binary files found to copy."}

\* C19: a command that was given targets and ends without a file entry (empty
\* folder, files all binary, excluded or unreadable) ends on an information message
\* saying that nothing was copied, not on an error, and writes nothing to the
\* clipboard, also when the preamble is not empty.
C19_NothingToCopy ==
    (Done /\ PromptFetched /\ call.sources = <<>>) =>
        /\ clipboard = <<>>
        /\ messages[Len(messages)].kind = "information"
        /\ messages[Len(messages)].text \in NothingCopiedTexts

\* The walked folder holds one binary file and there is a preamble: one warning,
\* the information message, an empty clipboard.
C19_Witness ==
    /\ Done
    /\ call.cmd = "copyFolderContent"
    /\ call.promptContent # <<>>
    /\ call.actualFoldersToProcess = <<WalkRoot>>
    /\ exists(fs, joinPath(WalkRoot, <<"a">>))
    /\ fs[joinPath(WalkRoot, <<"a">>)] = NullAtFiveFile
    /\ call.sources = <<>>
    /\ clipboard = <<>>
    /\ messages[Len(messages)] =
          Message("information",
                  "No readable, non-binary files found in selected folder(s) to copy.", <<>>)

TargetCommand == call.cmd \in {"copyFolderContent", "copyFileNamesAndContent"}
targets ==
    IF call.cmd = "copyFolderContent" THEN call.foldersToCopy ELSE call.filesToProcess

\* The command fails to access the selected item: stat fails on it, or, for a
\* selected file, opening or reading it fails.
accessFails(u) ==
    \/ statThrows(fs, u)
    \/ /\ call.cmd = "copyFileNamesAndContent"
       /\ fs[u].type = FileType_File
       /\ ~isReadable(fs[u])

\* The warning shown for it.
accessReport(u) ==
    IF statThrows(fs, u)
    THEN Message("warning", "Could not access selected item ", pathBasename(u))
    ELSE IF fs[u].openErr \/ fs[u].readErr THEN SkippedBinary(pathBasename(u))
    ELSE Message("warning", "Could not read file ", pathBasename(u))

\* The files a command has entries for when it is given these targets.
expectedFrom(selected) ==
    IF call.cmd = "copyFolderContent"
    THEN foldersInOrder(fs, SelectSeq(selected, LAMBDA u : isFolder(fs, u)))
    ELSE SelectSeq(selected, LAMBDA u : isCopyableFile(fs, u))

accessibleTargets == SelectSeq(targets, LAMBDA u : ~accessFails(u))

\* C20: in copyFileNamesAndContent and copyFolderContent every selected target
\* that cannot be accessed is reported by a warning, and the entries gathered are
\* those the accessible targets alone give, in the same order.
C20_TargetIsolation ==
    (Done /\ TargetCommand /\ targets # <<>>) =>
        /\ \A u \in Range(targets) :
              accessFails(u) => Count(messages, accessReport(u)) >= Count(targets, u)
        /\ call.sources = expectedFrom(accessibleTargets)
        /\ payloadParts =
              (IF call.promptContent # <<>> THEN <<call.promptContent>> ELSE <<>>)
              \o [i \in DOMAIN expectedFrom(accessibleTargets) |->
                     expectedEntry(expectedFrom(accessibleTargets)[i])]
        /\ call.sources # <<>> => clipboard = <<joinStrings(payloadParts)>>

\* The missing /m is selected before the folder /o: one warning, and the entry of
\* /o/a.
C20_Witness ==
    /\ Done
    /\ call.cmd = "copyFolderContent"
    /\ call.foldersToCopy = <<MissingPath, OtherRoot>>
    /\ Message("warning", "Could not access selected item ", pathBasename(MissingPath))
          \in Range(messages)
    /\ call.sources = <<OtherFilePath>>
    /\ Len(clipboard) = 1
    /\ blockCount(clipboard[1]) = 1


----------------------------------------------------------------------------
(* llmCopier.copyOneFile, and the header of the entries *)

\* What the active editor can show: the open documents, or a document of another
\* scheme (an output channel).
OutputDocument ==
    [scheme |-> "output", isUntitled |-> FALSE, fsPath |-> <<"O">>, text |-> DirtyText]
ActiveEditors == {Undefined} \cup {Some(d) : d \in OpenDocuments \cup {OutputDocument}}

\* The opening fence of an untitled document's block, which has no header line.
UntitledFenceOpen == "'''\n"

\* The locals of copyOneFile, lines 339-357.
OneCopy(promptContent, finalContentParts, sources) ==
    [cmd |-> "copyOneFile",
     promptContent |-> promptContent,
     finalContentParts |-> finalContentParts,
     sources |-> sources,
     next |-> 1]

\* Lines 331-382: the whole command.
CopyOneFile(editor) ==
    /\ pc = "idle"
    /\ pc' = "done"
    /\ IF editor = Undefined
       THEN /\ show("error", "No active editor.", <<>>)
            /\ call' = OneCopy(<<>>, <<>>, <<>>)
            /\ clipboard' = clipboard
       ELSE
         LET document == editor[1]
             onDisk == IF exists(fs, document.fsPath)
                          /\ fs[document.fsPath].type = FileType_File
                       THEN fs[document.fsPath]
                       ELSE FileNode(<<>>, TRUE, FALSE, TRUE)
             prompt == getPromptFileContent(config, workspaceFolders, fs)
             parts == IF prompt.content # <<>> THEN <<prompt.content>> ELSE <<>>
         IN
           IF document.scheme = "file" /\ isLikelyBinary(document.scheme, onDisk)
           THEN /\ show("warning", "Skipped copying binary file: ",
                        pathBasename(document.fsPath))
                /\ call' = OneCopy(<<>>, <<>>, <<>>)
                /\ clipboard' = clipboard
           ELSE IF document.scheme = "file"
           THEN /\ call' = OneCopy(prompt.content,
                                   Append(parts, formatFileContentForClipboard(
                                                    document.fsPath, document.text,
                                                    workspaceFolders)),
                                   <<document.fsPath>>)
                /\ clipboard' = Append(clipboard, joinStrings(call'.finalContentParts))
                /\ messages' = Append(messages \o prompt.shown,
                                  Message("information", "Copied one file to clipboard.", <<>>))
           ELSE IF document.scheme = "untitled"
           THEN /\ call' = OneCopy(prompt.content,
                                   Append(parts, <<UntitledFenceOpen>> \o document.text
                                                    \o <<FenceClose>>),
                                   <<>>)
                /\ clipboard' = Append(clipboard, joinStrings(call'.finalContentParts))
                /\ messages' = Append(messages \o prompt.shown,
                                  Message("information",
                                          "Copied content of untitled file to clipboard.", <<>>))
           ELSE /\ call' = OneCopy(prompt.content, parts, <<>>)
                /\ clipboard' = clipboard
                /\ messages' = Append(messages \o prompt.shown,
                                  Message("warning",
                                          "Cannot copy content from document with scheme ",
                                          document.scheme))
    /\ UNCHANGED <<workspaceFolders, fs, config, ret>>

\* The four commands that produce file entries.
NextEntries ==
    \/ Next
    \/ \E editor \in ActiveEditors : CopyOneFile(editor)

SpecEntries == Init /\ [][NextEntries]_vars

\* The strings a finished command has gathered, and among them the entries of
\* files: those that follow the preamble, one for each source.
gatheredParts ==
    IF call.cmd = "copyOneFile" THEN call.finalContentParts ELSE payloadParts
fileEntries ==
    LET off == IF call.promptContent # <<>> THEN 1 ELSE 0
    IN  [i \in DOMAIN call.sources |-> gatheredParts[off + i]]
displayPathOf(f) == getRelativePathString(f, getWorkspaceRootForUri(f, workspaceFolders))

----------------------------------------------------------------------------
(* The open documents, and the single write of the clipboard *)

InOpenCopy == "cmd" \in DOMAIN call /\ call.cmd = "copyAllOpenFiles"
isFileDocument(d) == d.scheme = "file" /\ ~d.isUntitled
entriesOfDocuments(docs) ==
    [i \in DOMAIN docs |->
        formatFileContentForClipboard(docs[i].fsPath, docs[i].text, workspaceFolders)]
SkippedOpenBinary(d) ==
    Message("warning", "Skipped open binary file: ", pathBasename(d.fsPath))

C26_NoPartialTranscript ==
    /\ Len(clipboard) <= 1
    /\ clipboard # <<>> => Done
    /\ clipboard # <<>> /\ InFolderCopy =>
          /\ call.actualFoldersToProcess = validFolders(fs, call.foldersToCopy)
          /\ call.next = Len(call.actualFoldersToProcess) + 1
          /\ clipboard = <<joinStrings(call.allClipboardContent)>>
    /\ clipboard # <<>> /\ InFileCopy =>
          /\ call.next = Len(call.filesToCopy) + 1
          /\ clipboard = <<joinStrings(call.clipboardContent)>>

\* Two folders with a file each have been walked, and their entries written at
\* once.
C26_Witness ==
    /\ Done /\ InFolderCopy
    /\ call.actualFoldersToProcess = <<OtherRoot, WalkRoot>>
    /\ call.next = 3
    /\ Len(call.sources) >= 2
    /\ call.sources[1] = OtherFilePath
    /\ clipboard = <<joinStrings(call.allClipboardContent)>>

----------------------------------------------------------------------------
(* Two invocations of the copy commands, interleaved at their awaits *)

\* The invocation that runs is in pc and call; the one that waits at an await is
\* kept in ret, with a note of whether the two have been in flight together.
Suspended(p, c, overlapped) == [pc |-> p, call |-> c, overlapped |-> overlapped]
InFlight(p) == p \notin {"idle", "done"}

PairFileSystems ==
    {CmdFs(NestedShape, NestedKinds),
     CmdFs({<<<<"a">>>>}, [p \in {<<<<"a">>>>} |-> NullAtFiveFile])}
PairConfigs ==
    {[includePromptFile |-> FALSE, globalPromptFilePath |-> <<>>],
     [includePromptFile |-> TRUE, globalPromptFilePath |-> GlobalPromptPath]}
PairSelections ==
    {<<WalkRoot>>, <<OtherRoot, WalkRoot>>, <<MissingPath, WalkRoot>>,
     <<joinPath(WalkRoot, <<"a">>)>>, <<OtherFilePath, joinPath(WalkRoot, <<"a">>)>>}
PairArgs == {[context |-> Some(sel[1]), selected |-> sel] : sel \in PairSelections}

InitPair ==
    /\ fs \in PairFileSystems
    /\ workspaceFolders = <<WalkRoot>>
    /\ config \in PairConfigs
    /\ pc = "idle"
    /\ call = <<>>
    /\ ret = Suspended("idle", <<>>, FALSE)
    /\ messages = NoMessages
    /\ clipboard = NoClipboard

\* A switch after which the resumed copyFolderContent goes on with what the other
\* one has gathered, as if the two shared their list.
SwitchSharingEntries ==
    /\ pc' = ret.pc
    /\ call' = IF InFlight(pc) /\ InFlight(ret.pc)
                  /\ call.cmd = "copyFolderContent" /\ ret.call.cmd = "copyFolderContent"
               THEN [ret.call EXCEPT !.allClipboardContent = call.allClipboardContent,
                                     !.allFilesCount = call.allFilesCount]
               ELSE ret.call
    /\ ret' = Suspended(pc, call, ret.overlapped \/ (InFlight(pc) /\ InFlight(ret.pc)))
    /\ UNCHANGED <<workspaceFolders, fs, config, messages, clipboard>>

\* At an await the running invocation gives way and the other one goes on, each
\* with its own locals.
Switch ==
    /\ pc' = ret.pc
    /\ call' = ret.call
    /\ ret' = Suspended(pc, call, ret.overlapped \/ (InFlight(pc) /\ InFlight(ret.pc)))
    /\ UNCHANGED <<workspaceFolders, fs, config, messages, clipboard>>

NextPair ==
    \/ Switch
    \/ \E args \in PairArgs : CopyFolderContent_Begin(args)
    \/ CopyFolderContent_Validate
    \/ CopyFolderContent_Walk
    \/ CopyFolderContent_Finish
    \/ \E args \in PairArgs : CopyFileNamesAndContent_Begin(args)
    \/ CopyFileNamesAndContent_Filter
    \/ CopyFileNamesAndContent_Filtered
    \/ CopyFileNamesAndContent_Read
    \/ CopyFileNamesAndContent_Finish

SpecPair == InitPair /\ [][NextPair]_vars

\* What the running invocation hands to the clipboard when it runs alone: the
\* preamble and the entries of its own targets.
payloadAlone ==
    getPromptFileContent(config, workspaceFolders, fs).content
    \o joinStrings([i \in DOMAIN expectedSources |-> expectedEntry(expectedSources[i])])

\* C23: whatever the interleaving, what an invocation hands to the clipboard is
\* the payload it produces alone from its own targets, and what it has gathered
\* comes from its own targets only.
C23_IndependentAggregations ==
    [][clipboard' # clipboard =>
          /\ clipboard' = Append(clipboard, payloadAlone)
          /\ call.sources = expectedSources]_vars

\* A copyFolderContent of /o and /w and a copyFileNamesAndContent of /w/a have
\* been in flight together and have both ended: two payloads, each its own.
C23_Witness ==
    /\ pc = "done" /\ ret.pc = "done" /\ ret.overlapped
    /\ call.cmd = "copyFolderContent" /\ call.foldersToCopy = <<OtherRoot, WalkRoot>>
    /\ ret.call.cmd = "copyFileNamesAndContent"
    /\ ret.call.filesToProcess = <<joinPath(WalkRoot, <<"a">>)>>
    /\ Len(call.sources) = 3 /\ Len(ret.call.sources) = 1
    /\ Len(clipboard) = 2
    /\ clipboard[2] = joinStrings(ret.call.clipboardContent)
    /\ clipboard[1] = joinStrings(call.allClipboardContent)

----------------------------------------------------------------------------
(* The walk and the entries that are neither files nor directories *)

SpecialItems(fsys, folder) ==
    {x \in DOMAIN fsys : /\ x # folder
                         /\ IsWithin(x, folder)
                         /\ fsys[x].type \notin {FileType_File, FileType_Directory}}

\* C30: an entry that is neither a regular file nor a directory is not followed,
\* gives no entry and no message: the walk gathers and shows exactly what the
\* walk of the same tree without that entry does; and no file is emitted twice.
C30_SpecialEntriesSkipped ==
    Walked =>
        /\ \A x \in SpecialItems(fs, call.folderUri) :
              /\ \A i \in DOMAIN ret.sources : ~IsWithin(ret.sources[i], x)
              /\ ret = readFolderRecursively(fsWithout(fs, x), workspaceFolders,
                                             call.folderUri)
        /\ \A i, j \in DOMAIN ret.sources : ret.sources[i] = ret.sources[j] => i = j

\* The walked folder holds a text file and, listed after it, a link back to the
\* folder: the walk ends with the entry of the file alone and shows nothing.
C30_Witness ==
    /\ Walked
    /\ exists(fs, <<"/", "w", "/", "a">>)
    /\ exists(fs, joinPath(WalkRoot, UpperPromptName))
    /\ fs[<<"/", "w", "/", "a">>] = LinkToAncestor
    /\ fs[joinPath(WalkRoot, UpperPromptName)] = TextFile
    /\ ret.sources = <<joinPath(WalkRoot, UpperPromptName)>>
    /\ ret.shown = <<>>

----------------------------------------------------------------------------
(* The config file of the root folder sync *)

\* JSON values: strings and numbers; an object is the list of its fields, in order.
StringValue(str) == [type |-> "string", str |-> str]
NumberValue(n) == [type |-> "number", n |-> n]
Field(key, value) == [key |-> key, value |-> value]
RootFolderKey == "root_folder"
EmptyObject == <<>>

\* obj[key]: the value of the field, or undefined.
getField(obj, key) ==
    IF \E i \in DOMAIN obj : obj[i].key = key
    THEN Some(obj[CHOOSE i \in DOMAIN obj : obj[i].key = key].value)
    ELSE Undefined

\* A variant that keeps no other field.
setFieldDroppingOthers(obj, key, value) == <<Field(key, value)>>

\* obj[key] = value: an existing field keeps its place, a new one goes last.
setField(obj, key, value) ==
    IF \E i \in DOMAIN obj : obj[i].key = key
    THEN [i \in DOMAIN obj |-> IF obj[i].key = key THEN Field(key, value) ELSE obj[i]]
    ELSE Append(obj, Field(key, value))

\* The texts a file can hold: blank (empty, or white space only), something that
\* is not JSON, or an object written with some indentation (0: on one line).  The
\* empty object is written {} whatever the indentation.
BlankText(spaces) == [kind |-> "blank", spaces |-> spaces]
GarbageText == [kind |-> "garbage"]
ObjectText(indent, obj) ==
    [kind |-> "json", indent |-> IF obj = EmptyObject THEN 0 ELSE indent, obj |-> obj]

\* fileContent.trim()
trim(text) == IF text.kind = "blank" THEN BlankText(0) ELSE text
isEmptyString(text) == text = BlankText(0)

\* JSON.parse(fileContent): it throws on what is not JSON.
parseThrows(text) == text.kind # "json"
JSON_parse(text) == text.obj

\* JSON.stringify(configData, null, 2)
JSON_stringify(obj, indent) == ObjectText(indent, obj)

\* The disk as the sync sees it: whether the directory of the config file exists,
\* the file (undefined when there is none), and which operations fail.
SyncDisk(dir, file, mkdirErr, readErr, writeErr) ==
    [dir |-> dir, file |-> file, mkdirErr |-> mkdirErr, readErr |-> readErr,
     writeErr |-> writeErr]

ConfigFilePath == <<"/", "c", "/", "j">>

\* The locals of a run of updateRootFolderInConfig.
NoRun ==
    [currentRootFolder |-> <<>>, configData |-> EmptyObject, text |-> BlankText(0),
     created |-> FALSE, fileContent |-> Undefined, readFailed |-> FALSE]

\* Lines 176-194: the setting, and the call of mkdir.  shown: the messages so far.
beginRun(r, cfg, shown) ==
    IF cfg.autoApplyConfigFile = <<>>
    THEN /\ messages' = Append(shown, Message("warning",
                "llmCopier.autoApplyConfigFile is not set. Root folder sync will not occur.",
                <<>>))
         /\ pc' = [pc EXCEPT ![r] = "done"]
    ELSE /\ messages' = shown
         /\ pc' = [pc EXCEPT ![r] = "mkdir"]

\* The first run that has not been started.
IdleRuns == {r \in DOMAIN pc : pc[r] = "idle"}
nextRun == CHOOSE r \in IdleRuns : \A q \in IdleRuns : r <= q


\* workspaceFolders[0].uri.fsPath, or '' without a workspace folder.
primaryRoot(folders) == IF Len(folders) > 0 THEN folders[1] ELSE <<>>

\* Bounds and inputs of the sync.
MaxRuns == 2
Runs == 1..MaxRuns
OtherKey == "other"
SyncRoots == {<<>>, <<WalkRoot>>, <<OtherRoot>>}
StoredValues == {StringValue(WalkRoot), StringValue(OtherRoot), StringValue(<<>>), NumberValue(1)}
StoredObjects ==
    {EmptyObject, <<Field(OtherKey, NumberValue(1))>>}
    \cup {<<Field(RootFolderKey, v)>> : v \in StoredValues}
    \cup {<<Field(OtherKey, NumberValue(1)), Field(RootFolderKey, v)>> : v \in StoredValues}
    \cup {<<Field(RootFolderKey, v), Field(OtherKey, NumberValue(1))>> :
            v \in {StringValue(WalkRoot), StringValue(OtherRoot)}}
StoredTexts ==
    {BlankText(0), BlankText(1), GarbageText}
    \cup {ObjectText(i, o) : i \in {0, 2}, o \in StoredObjects}
Faults == {<<FALSE, FALSE, FALSE>>, <<TRUE, FALSE, FALSE>>, <<FALSE, TRUE, FALSE>>,
           <<FALSE, FALSE, TRUE>>}
SyncDisks ==
    {SyncDisk(d, Undefined, f[1], f[2], f[3]) : d \in BOOLEAN, f \in Faults}
    \cup {SyncDisk(TRUE, Some(t), f[1], f[2], f[3]) : t \in StoredTexts, f \in Faults}
SyncConfigs == {[autoApplyConfigFile |-> p] : p \in {<<>>, ConfigFilePath}}

InitSync ==
    /\ workspaceFolders \in SyncRoots
    /\ fs \in SyncDisks
    /\ config \in SyncConfigs
    /\ pc = [r \in Runs |-> "idle"]
    /\ call = [r \in Runs |-> NoRun]
    /\ ret = [activated |-> FALSE, writes |-> <<>>]
    /\ messages = NoMessages
    /\ clipboard = NoClipboard

\* activate: the first run is started, and the listeners are registered.
Activate ==
    /\ ~ret.activated
    /\ ret' = [ret EXCEPT !.activated = TRUE]
    /\ beginRun(nextRun, config, messages)
    /\ UNCHANGED <<workspaceFolders, fs, config, call, clipboard>>

\* onDidChangeWorkspaceFolders: the folders have changed, a run is started.
OnDidChangeWorkspaceFolders(folders) ==
    /\ ret.activated /\ IdleRuns # {}
    /\ folders # workspaceFolders
    /\ workspaceFolders' = folders
    /\ beginRun(nextRun, config, messages)
    /\ UNCHANGED <<fs, config, call, ret, clipboard>>

\* onDidChangeConfiguration, the change affecting llmCopier.autoApplyConfigFile.
OnDidChangeConfiguration(cfg) ==
    /\ ret.activated /\ IdleRuns # {}
    /\ cfg # config
    /\ config' = cfg
    /\ beginRun(nextRun, cfg, messages)
    /\ UNCHANGED <<workspaceFolders, fs, call, ret, clipboard>>

\* The command llmCopier.updateRootFolderConfig.
UpdateRootFolderConfig ==
    /\ ret.activated /\ IdleRuns # {}
    /\ beginRun(nextRun, config,
                Append(messages, Message("info",
                    "Updating AutoCodeApplier root folder configuration...", <<>>)))
    /\ UNCHANGED <<workspaceFolders, fs, config, call, ret, clipboard>>

\* mkdir has settled: its failure ends the run; otherwise the root is taken and
\* readFile is called.
MkdirSettled(r) ==
    /\ pc[r] = "mkdir"
    /\ IF fs.mkdirErr
       THEN /\ show("error", "Failed to create directory for config file", <<>>)
            /\ pc' = [pc EXCEPT ![r] = "done"]
            /\ UNCHANGED <<fs, call>>
       ELSE /\ fs' = [fs EXCEPT !.dir = TRUE]
            /\ call' = [call EXCEPT ![r].currentRootFolder = primaryRoot(workspaceFolders),
                                    ![r].created = ~fs.dir]
            /\ pc' = [pc EXCEPT ![r] = "read"]
            /\ UNCHANGED messages
    /\ UNCHANGED <<workspaceFolders, config, ret, clipboard>>

\* What readFile and the parse leave in configData, and whether an error is shown.
readFileThrowsENOENT(disk) == disk.file = Undefined
readFileThrows(disk) == ~readFileThrowsENOENT(disk) /\ disk.readErr
readFailsOnBlank(disk) ==
    \/ readFileThrows(disk)
    \/ /\ disk.file # Undefined
       /\ parseThrows(disk.file[1])
readFails(disk) ==
    \/ readFileThrows(disk)
    \/ /\ disk.file # Undefined
       /\ ~isEmptyString(trim(disk.file[1]))
       /\ parseThrows(disk.file[1])
\* A variant that takes the object of the file although readFile has failed.
configDataReadThroughErrors(disk) ==
    IF disk.file # Undefined /\ disk.file[1].kind = "json" THEN JSON_parse(disk.file[1])
    ELSE EmptyObject
configDataRead(disk) ==
    IF readFileThrowsENOENT(disk) \/ readFails(disk) THEN EmptyObject
    ELSE IF isEmptyString(trim(disk.file[1])) THEN EmptyObject
    ELSE JSON_parse(disk.file[1])

\* A variant that calls writeFile whatever root_folder holds.
ReadSettledAlwaysWriting(r) ==
    /\ pc[r] = "read"
    /\ LET configData == configDataRead(fs)
           root == StringValue(call[r].currentRootFolder)
       IN /\ call' = [call EXCEPT
                        ![r].fileContent = fs.file,
                        ![r].readFailed = readFails(fs),
                        ![r].configData = setField(configData, RootFolderKey, root),
                        ![r].text = JSON_stringify(
                                        setField(configData, RootFolderKey, root), 2)]
          /\ pc' = [pc EXCEPT ![r] = "write"]
          /\ messages' = IF readFails(fs)
                         THEN Append(messages,
                                     Message("error", "Failed to read config file", <<>>))
                         ELSE messages
    /\ UNCHANGED <<workspaceFolders, fs, config, ret, clipboard>>

\* readFile has settled: the object is taken from the text, root_folder is compared
\* with the root, and either writeFile is called or the run ends.
ReadSettled(r) ==
    /\ pc[r] = "read"
    /\ LET configData == configDataRead(fs)
           root == StringValue(call[r].currentRootFolder)
           shown == IF readFails(fs)
                    THEN Append(messages, Message("error", "Failed to read config file", <<>>))
                    ELSE messages
       IN IF getField(configData, RootFolderKey) # Some(root)
          THEN /\ call' = [call EXCEPT
                            ![r].fileContent = fs.file,
                            ![r].readFailed = readFails(fs),
                            ![r].configData = setField(configData, RootFolderKey, root),
                            ![r].text = JSON_stringify(
                                            setField(configData, RootFolderKey, root), 2)]
               /\ pc' = [pc EXCEPT ![r] = "write"]
               /\ messages' = shown
          ELSE /\ call' = [call EXCEPT ![r].fileContent = fs.file,
                                       ![r].readFailed = readFails(fs),
                                       ![r].configData = configData]
               /\ pc' = [pc EXCEPT ![r] = "done"]
               /\ messages' = Append(shown, Message("info",
                                "AutoCodeApplier config: root_folder is already up-to-date.",
                                <<>>))
    /\ UNCHANGED <<workspaceFolders, fs, config, ret, clipboard>>

\* writeFile has settled.
WriteSettled(r) ==
    /\ pc[r] = "write"
    /\ IF fs.writeErr
       THEN /\ show("error", "Failed to write to config file", <<>>)
            /\ UNCHANGED fs
       ELSE /\ fs' = [fs EXCEPT !.file = Some(call[r].text)]
            /\ show("info", "AutoCodeApplier config updated: root_folder set to ",
                    call[r].currentRootFolder)
    /\ ret' = [ret EXCEPT !.writes = Append(@, [run |-> r, ok |-> ~fs.writeErr,
                                                before |-> fs.file])]
    /\ pc' = [pc EXCEPT ![r] = "done"]
    /\ UNCHANGED <<workspaceFolders, config, call, clipboard>>

NextSync ==
    \/ Activate
    \/ \E folders \in SyncRoots : OnDidChangeWorkspaceFolders(folders)
    \/ \E cfg \in SyncConfigs : OnDidChangeConfiguration(cfg)
    \/ UpdateRootFolderConfig
    \/ \E r \in Runs : MkdirSettled(r)
    \/ \E r \in Runs : ReadSettled(r)
    \/ \E r \in Runs : WriteSettled(r)

SpecSync == InitSync /\ [][NextSync]_vars


----------------------------------------------------------------------------
(* The sync: what a run writes *)

\* The root_folder the file holds: undefined when the file is missing, blank or
\* not a JSON text.
storedRootFolder(disk) ==
    IF disk.file # Undefined /\ disk.file[1].kind = "json"
    THEN getField(disk.file[1].obj, RootFolderKey)
    ELSE Undefined

\* The steps of a run, as seen between two states.
ReadStep(r) == pc[r] = "read" /\ pc'[r] # "read"
WriteStep(r) == pc[r] = "write" /\ pc'[r] = "done"
RootUnchanged(r) == primaryRoot(workspaceFolders) = call[r].currentRootFolder
IsError(msg) == msg.kind = "error"
OnlyRootFolder(root) == ObjectText(2, <<Field(RootFolderKey, StringValue(root))>>)

C22_AbsentState ==
    [][\A r \in Runs :
          /\ pc[r] = "mkdir" /\ pc'[r] = "read" => fs'.dir
          /\ /\ ReadStep(r)
             /\ ~readFileThrows(fs)
             /\ fs.file = Undefined \/ fs.file[1].kind = "blank"
             => /\ messages' = messages
                /\ fs.dir
                /\ pc'[r] = "write"
                /\ call'[r].text = OnlyRootFolder(call[r].currentRootFolder)
          /\ /\ WriteStep(r) /\ ~fs.writeErr
             /\ call[r].fileContent = Undefined \/ call[r].fileContent[1].kind = "blank"
             /\ ~\E i \in DOMAIN messages : IsError(messages[i])
             => fs'.file = Some(OnlyRootFolder(call[r].currentRootFolder))]_vars

\* A run has made the directory, found no file, and written one.
C22_Witness ==
    /\ pc[1] = "done" /\ call[1].created /\ call[1].fileContent = Undefined
    /\ Len(ret.writes) = 1 /\ ret.writes[1].ok /\ ret.writes[1].before = Undefined
    /\ fs.dir /\ fs.file = Some(OnlyRootFolder(WalkRoot))
    /\ ~\E i \in DOMAIN messages : IsError(messages[i])


----------------------------------------------------------------------------
(* The sync: overlapping runs, unreadable files, other fields *)

NoFault == ~fs.mkdirErr /\ ~fs.readErr /\ ~fs.writeErr
AllRunsFinished == \A r \in Runs : pc[r] \in {"idle", "done"}
SomeRunWorked == \E r \in Runs : pc[r] = "done" /\ call[r] # NoRun

\* C27: once every run that was started has finished, with the setting in place
\* and no operation failing, the root_folder of the file is the primary root.
C27_SyncConverges ==
    /\ ret.activated /\ AllRunsFinished /\ NoFault
    /\ config.autoApplyConfigFile # <<>>
    => storedRootFolder(fs) = Some(StringValue(primaryRoot(workspaceFolders)))

FailedToRead(msg) == msg = Message("error", "Failed to read config file", <<>>)

\* C28, as stated: a run whose read or parse fails, for a reason other than the
\* file not being found, shows the error and leaves the content of the file as it
\* is.
C28_UnreadableLeftUnchanged ==
    [][\A r \in Runs :
          /\ ReadStep(r) /\ readFails(fs) =>
                /\ Len(messages') = Len(messages) + 1
                /\ FailedToRead(messages'[Len(messages')])
          /\ WriteStep(r) /\ call[r].readFailed => fs'.file = fs.file]_vars

\* C28, amended: a run whose read or parse fails, for a reason other than the file
\* not being found, shows the error, goes on with the empty object and calls
\* writeFile with an object whose only field is root_folder, set to the root of
\* the run; that text replaces the content of the file unless the write fails
\* too, in which case the file is left as it is.
C28_UnreadableOverwritten ==
    [][\A r \in Runs :
          /\ ReadStep(r) /\ readFails(fs) =>
                /\ Len(messages') = Len(messages) + 1
                /\ FailedToRead(messages'[Len(messages')])
                /\ pc'[r] = "write"
                /\ call'[r].text = OnlyRootFolder(call[r].currentRootFolder)
          /\ WriteStep(r) /\ call[r].readFailed =>
                fs'.file = IF fs.writeErr THEN fs.file
                           ELSE Some(OnlyRootFolder(call[r].currentRootFolder))]_vars

\* A file that held an object with another field could not be read, and now holds
\* root_folder alone.
C28_Witness ==
    /\ pc[1] = "done" /\ call[1].readFailed
    /\ call[1].fileContent =
         Some(ObjectText(2, <<Field(OtherKey, NumberValue(1)),
                              Field(RootFolderKey, StringValue(OtherRoot))>>))
    /\ Len(ret.writes) = 1 /\ ret.writes[1].ok
    /\ fs.file = Some(OnlyRootFolder(WalkRoot))
    /\ \E i \in DOMAIN messages : FailedToRead(messages[i])

keysOf(obj) == {obj[i].key : i \in DOMAIN obj}
holdsObject(disk) == disk.file # Undefined /\ disk.file[1].kind = "json"

====
